---- MODULE Spec2Model ----
(***************************************************************************)
(* Task / workflow orchestration core of ai-digital-human-team:            *)
(*   workflow/task_manager.py           Task, TaskManager                  *)
(*   workflow/task_manager_enhanced.py  EnhancedTaskManager                *)
(*   workflow/task_scheduler.py         TaskScheduler                      *)
(*   workflow/workflow_engine.py        WorkflowStep, Workflow, Engine     *)
(*   workflow/workflow_pause.py         WorkflowPauseManager               *)
(* Every operation is one atomic action (the code is synchronous and       *)
(* single threaded); datetime.now() is the variable now, uuid4() is a      *)
(* nondeterministic choice among the unused identifiers.                   *)
(***************************************************************************)
EXTENDS Integers, Sequences, FiniteSets, TLC

\* ---------------------------------------------------------------- bounds
MaxTasks == 3          \* size of the task table
MaxClock == 120        \* last clock value (seconds)
MaxAttempts == 5       \* worker invocations per task that are explored
ApiTasks == 2          \* tasks created where the whole TaskManager API is open
MaxSteps == 2          \* steps of a workflow
WfRuns == 3            \* worker invocations while a workflow is observed
SchedTasks == 1        \* tasks driven through the scheduler and the timeout sweep
SchedRuns == 2         \* worker invocations per task under the scheduler
RetryTasks == 2        \* tasks whose worker always fails
PauseRuns == 1         \* worker invocations while pause and resume are observed
AssignTasks == 2       \* tasks offered to TaskManager.assign_task
ExecTasks == 1         \* tasks whose execute_task calls are observed
ExecRuns == 4          \* worker invocations per task in those calls
GuardRuns == 1         \* worker invocations per task before the early returns
ExecClock == 60        \* last clock value while those calls are observed
MaxWorkflows == 3      \* workflows of the engine where templates are observed
TplRuns == 1           \* worker invocations while templates are observed
TplTasks == 2          \* tasks created while templates are observed
ReadySteps == 2        \* steps of a workflow whose ready steps are asked for
ReadyRuns == 1         \* worker invocations while ready steps are asked for
AutoTasks == 2         \* tasks offered to auto_assign_pending_tasks
SinkTasks == 1         \* tasks executed while the knowledge base is observed
SinkRuns == 4          \* worker invocations per task in those executions
StoreTasks == 2        \* tasks saved to and loaded from the database
MaxThreads == 2        \* threads that call the TaskManager
ThreadTasks == 2       \* tasks created by those threads
SeniorTasks == 2       \* tasks queued while a retried task waits
RoleTasks == 2         \* tasks queued while get_next_task is asked for a role
CleanTasks == 2        \* tasks created where old tasks are cleaned up
LiveTasks == 3         \* tasks created while the progress of a workflow is observed

\* ------------------------------------------------------ program constants
LOW == 1
MEDIUM == 2
HIGH == 3
URGENT == 4
DefaultMaxRetries == 3
TimeoutCheckInterval == 60
DaySeconds == 86400     \* seconds of one day of timedelta(days=days)

\* TaskStatus values
PENDING == "pending"
ASSIGNED == "assigned"
IN_PROGRESS == "in_progress"
COMPLETED == "completed"
FAILED == "failed"
CANCELLED == "cancelled"

\* Python None for string valued, time valued and id valued fields
None == "None"
NoTime == -1
NoId == 0
\* results are opaque dicts: None, the empty dict {}, or a worker's output,
\* which is a positive number naming the task and the run that produced it
NoResult == -1
EmptyDict == 0
UnknownError == "unknown_error"        \* the literal "未知错误"
EmptyStr == ""                         \* str(e) of an exception without arguments
\* the error texts of the early returns of TaskScheduler.execute_task
ErrTaskMissing == "task_not_found"             \* "任务不存在: ..."
ErrNotAssigned == "task_not_assigned"          \* "任务未分配"
ErrTimedOut == "task_timed_out"                \* "任务已超时（...秒）"
ErrNoDigitalHuman == "digital_human_not_found" \* "找不到数字人: ..."

TaskIds == 1..MaxTasks
MissingId == MaxTasks + 1000           \* an id no task ever has
ClockStep == 60

\* role_mapping: task_type -> role name; unmapped types give None
PM == "project_manager"                \* "项目经理"
ARCHITECT == "system_architect"        \* "系统架构师"
FRONTEND == "frontend_engineer"        \* "前端工程师"
BACKEND == "backend_engineer"          \* "后端工程师"
DEVOPS == "devops_engineer"            \* "运维工程师"
role_mapping(task_type) ==
    CASE task_type \in {"create_plan", "track_progress", "generate_report",
                        "identify_risks"} -> PM
      [] task_type \in {"design_architecture", "evaluate_technology",
                        "create_standards", "solve_problem"} -> ARCHITECT
      [] task_type \in {"implement_ui", "optimize_performance", "fix_bug"} -> FRONTEND
      [] task_type \in {"implement_api", "optimize_query"} -> BACKEND
      [] task_type \in {"monitor_system", "handle_incident"} -> DEVOPS
      [] OTHER -> None

\* _get_digital_human: the roles a worker class exists for
HasDigitalHuman(role_name) ==
    role_name \in {PM, ARCHITECT, FRONTEND, BACKEND, DEVOPS}

VARIABLES
    tasks,             \* TaskManager.tasks: id -> Task
    task_queue,        \* TaskManager.task_queue: heap of (-priority, created_at, id)
    task_queue_set,    \* TaskManager._task_queue_set
    now,               \* the wall clock read by datetime.now()
    last_timeout_check,\* EnhancedTaskManager.last_timeout_check
    invoked,           \* history: id -> number of worker invocations
    created_order,     \* history: ids in the order create_task allocated them
    workflows,         \* WorkflowEngine.workflows: id -> Workflow
    paused_workflows,  \* WorkflowPauseManager.paused_workflows: id -> pause info
    workflow_templates,\* WorkflowEngine.workflow_templates: name -> the id of
                       \* the Workflow object registered under the name
    lastOp,            \* history: the last operation, its argument and result
    threads            \* thread -> the statement of the TaskManager method it
                       \* runs next, the task id and its local new_queue

vars == <<tasks, task_queue, task_queue_set, now, last_timeout_check,
          invoked, created_order, workflows, paused_workflows,
          workflow_templates, lastOp, threads>>

\* lastOp: operation name, its id argument, its boolean outcome and the id
\* or count it returned (NoId for None), the "error" of the dict it
\* returned (None when it returned no dict or a dict without error), and the
\* method of the knowledge base it called (None when it called none) with
\* whether that call raised
Op(name, arg, ok, val) ==
    [op |-> name, arg |-> arg, ok |-> ok, val |-> val, err |-> None,
     sink |-> None, sink_raised |-> FALSE]
OpErr(name, arg, ok, err) ==
    [op |-> name, arg |-> arg, ok |-> ok, val |-> NoId, err |-> err,
     sink |-> None, sink_raised |-> FALSE]

\* ------------------------------------------------------------------ Task
\* Task.__init__
NewTask(task_type, priority, dependencies, wf, step) ==
    [task_type |-> task_type, assigned_to |-> None, priority |-> priority,
     dependencies |-> dependencies, wf |-> wf, step |-> step,
     status |-> PENDING, created_at |-> now, assigned_at |-> NoTime,
     started_at |-> NoTime, completed_at |-> NoTime,
     result |-> NoResult, error |-> None,
     retry_count |-> 0, max_retries |-> DefaultMaxRetries,
     timeout_seconds |-> NoTime, last_activity |-> now]

\* Task.assign
TaskAssign(t, role_name) ==
    [t EXCEPT !.assigned_to = role_name, !.status = ASSIGNED, !.assigned_at = now]

\* Task.start
TaskStart(t) ==
    [t EXCEPT !.status = IN_PROGRESS, !.started_at = now, !.last_activity = now]

\* Task.complete
TaskComplete(t, result) ==
    [t EXCEPT !.status = COMPLETED, !.completed_at = now, !.result = result]

\* Task.fail
TaskFail(t, error) ==
    [t EXCEPT !.status = FAILED, !.completed_at = now, !.error = error,
              !.last_activity = now]

\* Task.check_timeout
TaskCheckTimeout(t) ==
    IF t.timeout_seconds = NoTime \/ t.status # IN_PROGRESS
    THEN FALSE
    ELSE now - t.last_activity > t.timeout_seconds

\* Task.cancel
TaskCancel(t) ==
    [t EXCEPT !.status = CANCELLED, !.completed_at = now]

\* ----------------------------------------------------------- TaskManager
\* tuple comparison of heap entries (-priority, created_at, id)
EntryLess(a, b) ==
    \/ a[1] < b[1]
    \/ a[1] = b[1] /\ a[2] < b[2]
    \/ a[1] = b[1] /\ a[2] = b[2] /\ a[3] < b[3]

\* heapq.heappush on the heap kept as its sorted listing
HeapPush(q, e) ==
    LET k == Cardinality({i \in 1..Len(q) : EntryLess(q[i], e)})
    IN  SubSeq(q, 1, k) \o <<e>> \o SubSeq(q, k + 1, Len(q))

QueueIds(q) == {q[i][3] : i \in 1..Len(q)}

\* TaskManager._add_to_queue: the (queue, set) pair after the call
AddToQueue(q, qs, id, t) ==
    IF id \notin qs
    THEN [q |-> HeapPush(q, <<0 - t.priority, t.created_at, id>>), s |-> qs \cup {id}]
    ELSE [q |-> q, s |-> qs]

\* _remove_from_queue that forgets the heap and only updates the set
RemoveFromQueue_SetOnly(q, qs, id) ==
    IF id \in qs
    THEN [q |-> q, s |-> qs \ {id}]
    ELSE [q |-> q, s |-> qs]

\* TaskManager._remove_from_queue
RemoveFromQueue(q, qs, id) ==
    IF id \in qs
    THEN [q |-> SelectSeq(q, LAMBDA e : e[3] # id), s |-> qs \ {id}]
    ELSE [q |-> q, s |-> qs]

\* the dependency test shared by create_task and _check_dependent_tasks
AllDepsCompleted(tt, deps) ==
    \A d \in deps : d \in DOMAIN tt /\ tt[d].status = COMPLETED

\* a thread that runs no method of the TaskManager
Idle == [pc |-> "idle", task_id |-> NoId, new_queue |-> <<>>]

Init ==
    /\ tasks = <<>>
    /\ task_queue = <<>>
    /\ task_queue_set = {}
    /\ now = 0
    /\ last_timeout_check = 0
    /\ invoked = [i \in TaskIds |-> 0]
    /\ created_order = <<>>
    /\ workflows = <<>>
    /\ paused_workflows = <<>>
    /\ workflow_templates = <<>>
    /\ lastOp = Op("init", NoId, TRUE, NoId)
    /\ threads = [th \in 1..MaxThreads |-> Idle]

\* the table after TaskManager.create_task
CreateTaskState(tt0, q, qs, id, task_type, priority, dependencies, wf, step) ==
    LET t == NewTask(task_type, priority, dependencies, wf, step)
        tt == (id :> t) @@ tt0
        aq == IF dependencies = {} \/ AllDepsCompleted(tt, dependencies)
              THEN AddToQueue(q, qs, id, t)
              ELSE [q |-> q, s |-> qs]
    IN  [tasks |-> tt, q |-> aq.q, s |-> aq.s]

\* TaskManager.create_task
CreateTask(id, task_type, priority, dependencies) ==
    /\ id \in TaskIds \ DOMAIN tasks
    /\ id \notin {created_order[i] : i \in 1..Len(created_order)}
    /\ \E st \in {CreateTaskState(tasks, task_queue, task_queue_set, id, task_type,
                                 priority, dependencies, NoId, NoId)} :
           /\ tasks' = st.tasks
           /\ task_queue' = st.q
           /\ task_queue_set' = st.s
    /\ created_order' = Append(created_order, id)
    /\ lastOp' = Op("create_task", id, TRUE, id)
    /\ UNCHANGED <<now, last_timeout_check, invoked, workflows, paused_workflows,
                   workflow_templates, threads>>

\* the dependency check of TaskManager.assign_task
AssignAllowed(tt, id) ==
    /\ id \in DOMAIN tt
    /\ \A d \in tt[id].dependencies : d \in DOMAIN tt /\ tt[d].status = COMPLETED

\* the table after TaskManager.assign_task (unchanged when it returns False)
AssignTaskState(tt, q, qs, id, role_name) ==
    IF AssignAllowed(tt, id)
    THEN LET rq == RemoveFromQueue(q, qs, id)
         IN  [tasks |-> [tt EXCEPT ![id] = TaskAssign(tt[id], role_name)],
              q |-> rq.q, s |-> rq.s, ok |-> TRUE]
    ELSE [tasks |-> tt, q |-> q, s |-> qs, ok |-> FALSE]

\* TaskManager.assign_task
AssignTask(id, role_name) ==
    /\ \E st \in {AssignTaskState(tasks, task_queue, task_queue_set, id, role_name)} :
           /\ tasks' = st.tasks
           /\ task_queue' = st.q
           /\ task_queue_set' = st.s
           /\ lastOp' = Op("assign_task", id, st.ok, NoId)
    /\ UNCHANGED <<now, last_timeout_check, invoked, created_order,
                   workflows, paused_workflows,
                   workflow_templates, threads>>

\* the pop loop of TaskManager.get_next_task
RECURSIVE PopLoop(_, _, _)
PopLoop(tt, q, qs) ==
    IF q = <<>>
    THEN [q |-> q, s |-> qs, ret |-> NoId]
    ELSE LET tid == Head(q)[3]
         IN  IF tid \notin DOMAIN tt \/ tt[tid].status # PENDING
             THEN PopLoop(tt, Tail(q), qs \ {tid})
             ELSE [q |-> Tail(q), s |-> qs \ {tid}, ret |-> tid]

\* TaskManager.get_next_task (role_name is accepted and not used)
GetNextTask(role_name) ==
    /\ \E r \in {PopLoop(tasks, task_queue, task_queue_set)} :
           /\ task_queue' = r.q
           /\ task_queue_set' = r.s
           /\ lastOp' = Op("get_next_task", NoId, r.ret # NoId, r.ret)
    /\ UNCHANGED <<tasks, now, last_timeout_check, invoked, created_order,
                   workflows, paused_workflows,
                   workflow_templates, threads>>

\* _check_dependent_tasks without the test of the other dependencies
DependentsToEnqueue_AnyDep(tt, completed_task_id) ==
    {i \in DOMAIN tt : /\ completed_task_id \in tt[i].dependencies
                       /\ tt[i].status = PENDING}

\* TaskManager._check_dependent_tasks: the tasks it passes to _add_to_queue
DependentsToEnqueue(tt, completed_task_id) ==
    {i \in DOMAIN tt : /\ completed_task_id \in tt[i].dependencies
                       /\ AllDepsCompleted(tt, tt[i].dependencies)
                       /\ tt[i].status = PENDING}

RECURSIVE AddAllToQueue(_, _, _, _)
AddAllToQueue(tt, q, qs, ids) ==
    IF ids = {}
    THEN [q |-> q, s |-> qs]
    ELSE LET i == CHOOSE x \in ids : TRUE
             a == AddToQueue(q, qs, i, tt[i])
         IN  AddAllToQueue(tt, a.q, a.s, ids \ {i})

CheckDependentTasks(tt, q, qs, completed_task_id) ==
    AddAllToQueue(tt, q, qs, DependentsToEnqueue(tt, completed_task_id))

\* the retry branch of update_task_status(FAILED)
CanRetry(t) == t.retry_count < t.max_retries

\* the table after TaskManager.update_task_status
UpdateStatusState(tt, q, qs, id, status, result, error) ==
    IF id \notin DOMAIN tt
    THEN [tasks |-> tt, q |-> q, s |-> qs, ok |-> FALSE]
    ELSE CASE status = IN_PROGRESS ->
                [tasks |-> [tt EXCEPT ![id] = TaskStart(tt[id])],
                 q |-> q, s |-> qs, ok |-> TRUE]
           [] status = COMPLETED ->
                LET r == IF result \in {NoResult, EmptyDict} THEN EmptyDict ELSE result
                    t2 == [tt EXCEPT ![id] = TaskComplete(tt[id], r)]
                    c == CheckDependentTasks(t2, q, qs, id)
                IN  [tasks |-> t2, q |-> c.q, s |-> c.s, ok |-> TRUE]
           [] status = FAILED ->
                LET e == IF error \in {None, EmptyStr} THEN UnknownError ELSE error
                    f == TaskFail(tt[id], e)
                IN  IF CanRetry(f)
                    THEN LET g == [f EXCEPT !.retry_count = f.retry_count + 1,
                                            !.status = PENDING, !.error = None]
                             a == AddToQueue(q, qs, id, g)
                         IN  [tasks |-> [tt EXCEPT ![id] = g],
                              q |-> a.q, s |-> a.s, ok |-> TRUE]
                    ELSE [tasks |-> [tt EXCEPT ![id] = f],
                          q |-> q, s |-> qs, ok |-> TRUE]
           [] OTHER -> [tasks |-> tt, q |-> q, s |-> qs, ok |-> TRUE]

\* TaskManager.update_task_status
UpdateTaskStatus(id, status, result, error) ==
    /\ \E st \in {UpdateStatusState(tasks, task_queue, task_queue_set,
                                   id, status, result, error)} :
           /\ tasks' = st.tasks
           /\ task_queue' = st.q
           /\ task_queue_set' = st.s
           /\ lastOp' = Op("update_task_status", id, st.ok, NoId)
    /\ UNCHANGED <<now, last_timeout_check, invoked, created_order,
                   workflows, paused_workflows,
                   workflow_templates, threads>>

\* Task.cancel on a task of the table
CancelTask(id) ==
    /\ id \in DOMAIN tasks
    /\ tasks' = [tasks EXCEPT ![id] = TaskCancel(tasks[id])]
    /\ lastOp' = Op("cancel", id, TRUE, NoId)
    /\ UNCHANGED <<task_queue, task_queue_set, now, last_timeout_check,
                   invoked, created_order, workflows, paused_workflows,
                   workflow_templates, threads>>

\* --------------------------------------------------- EnhancedTaskManager
\* EnhancedTaskManager.check_timeouts
CheckTimeouts ==
    /\ IF now - last_timeout_check < TimeoutCheckInterval
       THEN /\ lastOp' = Op("check_timeouts", NoId, FALSE, 0)
            /\ UNCHANGED <<tasks, last_timeout_check, threads>>
       ELSE LET timeout_tasks == {i \in DOMAIN tasks : TaskCheckTimeout(tasks[i])}
            IN  /\ last_timeout_check' = now
                /\ tasks' = [i \in DOMAIN tasks |->
                               IF i \in timeout_tasks
                               THEN TaskFail(tasks[i], "timeout")
                               ELSE tasks[i]]
                /\ lastOp' = Op("check_timeouts", NoId, TRUE, Cardinality(timeout_tasks))
    /\ UNCHANGED <<task_queue, task_queue_set, now, invoked, created_order,
                   workflows, paused_workflows,
                   workflow_templates, threads>>

\* the passage of time between two operations
Tick ==
    /\ now + ClockStep <= MaxClock
    /\ now' = now + ClockStep
    /\ UNCHANGED <<tasks, task_queue, task_queue_set, last_timeout_check,
                   invoked, created_order, workflows, paused_workflows,
                   workflow_templates, lastOp, threads>>

\* --------------------------------------------------------- TaskScheduler
\* TaskScheduler.assign_task
SchedulerAssignTask(id) ==
    /\ id \in DOMAIN tasks
    /\ LET role_name == role_mapping(tasks[id].task_type)
           st == IF role_name = None
                 THEN [tasks |-> tasks, q |-> task_queue, s |-> task_queue_set,
                       ok |-> FALSE]
                 ELSE AssignTaskState(tasks, task_queue, task_queue_set, id, role_name)
       IN  /\ tasks' = st.tasks
           /\ task_queue' = st.q
           /\ task_queue_set' = st.s
           /\ lastOp' = Op("scheduler_assign_task", id, st.ok, NoId)
    /\ UNCHANGED <<now, last_timeout_check, invoked, created_order,
                   workflows, paused_workflows,
                   workflow_templates, threads>>

\* the candidates of an auto_assign_pending_tasks that also takes the tasks
\* that are ASSIGNED already
AutoAssignCandidates_AnyOpen(tt) ==
    {i \in DOMAIN tt :
        /\ tt[i].status \in {PENDING, ASSIGNED}
        /\ \A d \in tt[i].dependencies :
              d \in DOMAIN tt => tt[d].status = COMPLETED}

\* the tasks auto_assign_pending_tasks hands to assign_task: PENDING, and no
\* dependency that is present in the table is short of COMPLETED
AutoAssignCandidates(tt) ==
    {i \in DOMAIN tt :
        /\ tt[i].status = PENDING
        /\ \A d \in tt[i].dependencies :
              d \in DOMAIN tt => tt[d].status = COMPLETED}

RECURSIVE AssignAll(_, _, _, _, _)
AssignAll(tt, q, qs, ids, n) ==
    IF ids = {}
    THEN [tasks |-> tt, q |-> q, s |-> qs, n |-> n]
    ELSE LET i == CHOOSE x \in ids : TRUE
             role_name == role_mapping(tt[i].task_type)
             st == IF role_name = None
                   THEN [tasks |-> tt, q |-> q, s |-> qs, ok |-> FALSE]
                   ELSE AssignTaskState(tt, q, qs, i, role_name)
         IN  AssignAll(st.tasks, st.q, st.s, ids \ {i}, IF st.ok THEN n + 1 ELSE n)

\* TaskScheduler.auto_assign_pending_tasks
AutoAssignPendingTasks ==
    /\ \E st \in {AssignAll(tasks, task_queue, task_queue_set,
                           AutoAssignCandidates(tasks), 0)} :
           /\ tasks' = st.tasks
           /\ task_queue' = st.q
           /\ task_queue_set' = st.s
           /\ lastOp' = Op("auto_assign_pending_tasks", NoId, TRUE, st.n)
    /\ UNCHANGED <<now, last_timeout_check, invoked, created_order,
                   workflows, paused_workflows,
                   workflow_templates, threads>>

\* the result dict of the next successful run of the worker on task id
WorkerResult(id) == 10 * id + invoked[id] + 1

\* what the worker (digital_human.execute_task) does with the task, and
\* what the knowledge base does when it is called afterwards: "ok", or
\* "raise" when the import, the constructor or the write raises
WorkerSuccess(r) == [kind |-> "success", val |-> r, err |-> None, sink |-> "ok"]
WorkerFailure(e) == [kind |-> "failure", val |-> NoResult, err |-> e, sink |-> "ok"]
WorkerRaise(e) == [kind |-> "raise", val |-> NoResult, err |-> e, sink |-> "ok"]

\* the guards of execute_task without the check_timeout test
ExecuteRefused_NoTimeoutTest(tt, id) ==
    \/ id \notin DOMAIN tt
    \/ tt[id].assigned_to = None
    \/ ~HasDigitalHuman(tt[id].assigned_to)

\* the guards of TaskScheduler.execute_task that return before the worker runs
ExecuteRefused(tt, id) ==
    \/ id \notin DOMAIN tt
    \/ tt[id].assigned_to = None
    \/ TaskCheckTimeout(tt[id])
    \/ ~HasDigitalHuman(tt[id].assigned_to)

\* the "error" of the dict an early return of execute_task gives back
ExecuteRefusal(tt, id) ==
    CASE id \notin DOMAIN tt -> ErrTaskMissing
      [] tt[id].assigned_to = None -> ErrNotAssigned
      [] TaskCheckTimeout(tt[id]) -> ErrTimedOut
      [] OTHER -> ErrNoDigitalHuman

\* _save_to_knowledge_base and _save_failure_experience without their
\* try/except: an exception of the knowledge base leaves them
SinkEscapes_Unguarded(sink) == sink = "raise"

\* _save_to_knowledge_base and _save_failure_experience: whether an exception
\* of the knowledge base leaves them; both catch Exception and log it
SinkEscapes(sink) == FALSE

\* execute_task whose except branch does not record the failure
ExecuteState_RaiseLost(tt, q, qs, id, timeout, outcome) ==
    LET t1 == IF timeout # NoTime /\ timeout # 0
              THEN [tt EXCEPT ![id].timeout_seconds = timeout]
              ELSE tt
        s1 == UpdateStatusState(t1, q, qs, id, IN_PROGRESS, NoResult, None)
    IN  [ok |-> outcome.kind = "success", err |-> outcome.err, sink |-> None,
         sink_raised |-> FALSE]
        @@ CASE outcome.kind = "success" ->
                   UpdateStatusState(s1.tasks, s1.q, s1.s, id, COMPLETED,
                                     outcome.val, None)
             [] outcome.kind = "failure" ->
                   UpdateStatusState(s1.tasks, s1.q, s1.s, id, FAILED,
                                     NoResult, outcome.err)
             [] OTHER -> s1

\* TaskScheduler.execute_task from the timeout assignment on: the table and
\* the queue after the worker ran with the outcome, the dict returned
\* ("success" and "error"), and the method of the knowledge base called.
\* The calls of the knowledge base are inside the try block, so an exception
\* that left them would reach the except branch like one of the worker
ExecuteState(tt, q, qs, id, timeout, outcome) ==
    LET t1 == IF timeout # NoTime /\ timeout # 0
              THEN [tt EXCEPT ![id].timeout_seconds = timeout]
              ELSE tt
        s1 == UpdateStatusState(t1, q, qs, id, IN_PROGRESS, NoResult, None)
        called == CASE outcome.kind = "success" -> "add_task_result"
                    [] outcome.kind = "failure" -> "add_experience"
                    [] OTHER -> None
        escaped == called # None /\ SinkEscapes(outcome.sink)
        raised == outcome.kind = "raise" \/ escaped
        e == IF outcome.kind = "raise" THEN outcome.err ELSE "sink error"
    IN  [ok |-> outcome.kind = "success" /\ ~raised,
         err |-> IF raised THEN e ELSE outcome.err,
         sink |-> called,
         sink_raised |-> called # None /\ outcome.sink = "raise"]
        @@ CASE outcome.kind = "raise" ->
                   UpdateStatusState(s1.tasks, s1.q, s1.s, id, FAILED,
                                     NoResult, e)
             [] outcome.kind = "success" /\ ~escaped ->
                   UpdateStatusState(s1.tasks, s1.q, s1.s, id, COMPLETED,
                                     outcome.val, None)
             [] outcome.kind = "failure" /\ ~escaped ->
                   UpdateStatusState(s1.tasks, s1.q, s1.s, id, FAILED,
                                     NoResult, outcome.err)
             [] OTHER ->
                   LET s2 == UpdateStatusState(
                                 s1.tasks, s1.q, s1.s, id,
                                 IF outcome.kind = "success" THEN COMPLETED
                                 ELSE FAILED,
                                 outcome.val, outcome.err)
                   IN  UpdateStatusState(s2.tasks, s2.q, s2.s, id, FAILED,
                                         NoResult, e)

\* TaskScheduler.execute_task
ExecuteTask(id, timeout, outcome) ==
    /\ IF ExecuteRefused(tasks, id)
       THEN /\ lastOp' = OpErr("execute_task", id, FALSE, ExecuteRefusal(tasks, id))
            /\ UNCHANGED <<tasks, task_queue, task_queue_set, invoked, threads>>
       ELSE /\ invoked[id] < MaxAttempts
            /\ invoked' = [invoked EXCEPT ![id] = @ + 1]
            /\ \E st \in {ExecuteState(tasks, task_queue, task_queue_set,
                                       id, timeout, outcome)} :
                   /\ tasks' = st.tasks
                   /\ task_queue' = st.q
                   /\ task_queue_set' = st.s
                   /\ lastOp' = [OpErr("execute_task", id, st.ok, st.err)
                                    EXCEPT !.sink = st.sink,
                                           !.sink_raised = st.sink_raised]
    /\ UNCHANGED <<now, last_timeout_check, created_order,
                   workflows, paused_workflows,
                   workflow_templates, threads>>

\* ------------------------------------------------ WorkflowStep / Workflow
\* WorkflowStatus values
CREATED == "created"
RUNNING == "running"
PAUSED == "paused"
\* COMPLETED, FAILED and CANCELLED have the values of the TaskStatus members

\* WorkflowStep.__init__ ; step_id "step_N" is the number N, and a step_id
\* the caller chose that has not this form is a number above StepA
NewStep(step_id, step_type, role_name, condition) ==
    [step_id |-> step_id,
     step_type |-> step_type, role_name |-> role_name, condition |-> condition,
     status |-> PENDING, task_id |-> NoId, result |-> NoResult, error |-> None]

\* Workflow.__init__
NewWorkflow ==
    [status |-> CREATED, steps |-> <<>>, context |-> <<>>, dependencies |-> <<>>,
     started_at |-> NoTime, completed_at |-> NoTime]

\* Workflow.add_step
WorkflowAddStep(w, step_type, role_name, depends_on, condition) ==
    LET step_id == Len(w.steps) + 1
    IN  [w EXCEPT !.steps = Append(@, NewStep(step_id, step_type, role_name,
                                              condition)),
                  !.dependencies = IF depends_on # {}
                                   THEN (step_id :> depends_on) @@ @
                                   ELSE @]

\* WorkflowStep.can_execute; a condition is None, a predicate that never
\* holds, or one that asks for the result of step_1 in the context
CanExecute(step, context) ==
    CASE step.condition = None -> TRUE
      [] step.condition = "never" -> FALSE
      [] OTHER -> 1 \in DOMAIN context

\* Workflow.get_step: the position of the first step with the id, 0 for None
GetStep(w, step_id) ==
    IF \E j \in 1..Len(w.steps) : w.steps[j].step_id = step_id
    THEN CHOOSE j \in 1..Len(w.steps) :
            /\ w.steps[j].step_id = step_id
            /\ \A k \in 1..(j - 1) : w.steps[k].step_id # step_id
    ELSE 0

\* the test of get_ready_steps where a dependency that names no step of the
\* workflow counts as met
StepReady_MissingDepMet(w, i) ==
    /\ w.steps[i].status \notin {COMPLETED, IN_PROGRESS}
    /\ w.steps[i].step_id \in DOMAIN w.dependencies =>
          \A dep_id \in w.dependencies[w.steps[i].step_id] :
              \A j \in 1..Len(w.steps) :
                  w.steps[j].step_id = dep_id => w.steps[j].status = COMPLETED
    /\ CanExecute(w.steps[i], w.context)

\* the test of Workflow.get_ready_steps on the step at position i
StepReady(w, i) ==
    /\ w.steps[i].status \notin {COMPLETED, IN_PROGRESS}
    /\ w.steps[i].step_id \in DOMAIN w.dependencies =>
          \A dep_id \in w.dependencies[w.steps[i].step_id] :
              \E j \in 1..Len(w.steps) :
                  w.steps[j].step_id = dep_id /\ w.steps[j].status = COMPLETED
    /\ CanExecute(w.steps[i], w.context)

\* Workflow.get_ready_steps: the positions of the ready steps, in step order
GetReadySteps(w) ==
    SelectSeq([i \in 1..Len(w.steps) |-> i], LAMBDA i : StepReady(w, i))

\* is_completed with any() in the place of all()
IsCompleted_Any(w) == \E i \in 1..Len(w.steps) : w.steps[i].status = COMPLETED

\* Workflow.is_completed
IsCompleted(w) == \A i \in 1..Len(w.steps) : w.steps[i].status = COMPLETED

\* the list a call returned, as the number lastOp holds: the positions of
\* the steps, one decimal digit each
RECURSIVE ListCode(_)
ListCode(seq) ==
    IF seq = <<>> THEN 0
    ELSE 10 * ListCode(SubSeq(seq, 1, Len(seq) - 1)) + seq[Len(seq)]

\* Workflow.get_ready_steps called on a workflow of the engine
CallGetReadySteps(wid) ==
    /\ wid \in DOMAIN workflows
    /\ lastOp' = Op("get_ready_steps", wid, TRUE,
                    ListCode(GetReadySteps(workflows[wid])))
    /\ UNCHANGED <<tasks, task_queue, task_queue_set, now, last_timeout_check,
                   invoked, created_order, workflows, paused_workflows,
                   workflow_templates, threads>>

\* -------------------------------------------------------- WorkflowEngine
\* one iteration of the loop of _create_tasks_for_ready_steps; world is the
\* task table, the queue, its index and the ids handed out so far
MaterializeStep(w, wid, world, i) ==
    LET step_id == w.steps[i].step_id
        deps == IF step_id \in DOMAIN w.dependencies
                THEN w.dependencies[step_id] ELSE {}
        dependencies == {w.steps[GetStep(w, d)].task_id :
                            d \in {x \in deps : /\ GetStep(w, x) # 0
                                                /\ w.steps[GetStep(w, x)].task_id # NoId}}
        id == Len(world.order) + 1
        c == CreateTaskState(world.tasks, world.q, world.s, id,
                             w.steps[i].step_type, MEDIUM, dependencies, wid,
                             step_id)
        a == AssignTaskState(c.tasks, c.q, c.s, id, w.steps[i].role_name)
    IN  [w |-> [w EXCEPT !.steps[i].task_id = id, !.steps[i].status = ASSIGNED],
         world |-> [tasks |-> a.tasks, q |-> a.q, s |-> a.s,
                    order |-> Append(world.order, id)]]

RECURSIVE MaterializeAll(_, _, _, _)
MaterializeAll(w, wid, world, ready) ==
    IF ready = <<>>
    THEN [w |-> w, world |-> world]
    ELSE LET m == MaterializeStep(w, wid, world, Head(ready))
         IN  MaterializeAll(m.w, wid, m.world, Tail(ready))

\* WorkflowEngine._create_tasks_for_ready_steps
CreateTasksForReadySteps(w, wid, world) ==
    MaterializeAll(w, wid, world, GetReadySteps(w))

World == [tasks |-> tasks, q |-> task_queue, s |-> task_queue_set,
          order |-> created_order]

\* the first loop of update_workflow: a step takes the status of its task,
\* the result of a COMPLETED task and the error of a FAILED one
SyncStep(step, tt) ==
    IF step.task_id # NoId /\ step.task_id \in DOMAIN tt
    THEN LET task == tt[step.task_id]
         IN  [step EXCEPT !.status = task.status,
                          !.result = IF task.status = COMPLETED THEN task.result ELSE @,
                          !.error = IF task.status = FAILED THEN task.error ELSE @]
    ELSE step

\* Workflow.update_step_result for every step the loop saw COMPLETED; the
\* step ids of a workflow are distinct, so get_step finds the step itself
SyncWorkflow(w, tt) ==
    LET steps == [i \in 1..Len(w.steps) |-> SyncStep(w.steps[i], tt)]
        done == {i \in 1..Len(w.steps) :
                    /\ w.steps[i].task_id # NoId
                    /\ w.steps[i].task_id \in DOMAIN tt
                    /\ tt[w.steps[i].task_id].status = COMPLETED}
        doneIds == {w.steps[i].step_id : i \in done}
    IN  [w EXCEPT !.steps = steps,
                  !.context = [k \in doneIds \cup DOMAIN w.context |->
                                  IF k \in doneIds
                                  THEN tt[w.steps[GetStep(w, k)].task_id].result
                                  ELSE w.context[k]]]

\* update_workflow that materializes ready steps of a PAUSED workflow too
UpdateWorkflowState_NoPauseTest(w, wid, world) ==
    LET w1 == SyncWorkflow(w, world.tasks)
    IN  IF w1.status \in {RUNNING, PAUSED}
        THEN LET m == CreateTasksForReadySteps(w1, wid, world)
             IN  IF IsCompleted(m.w)
                 THEN [w |-> [m.w EXCEPT !.status = COMPLETED, !.completed_at = now],
                       world |-> m.world]
                 ELSE m
        ELSE [w |-> w1, world |-> world]

\* WorkflowEngine.update_workflow on an existing workflow
UpdateWorkflowState(w, wid, world) ==
    LET w1 == SyncWorkflow(w, world.tasks)
    IN  IF w1.status = RUNNING
        THEN LET m == CreateTasksForReadySteps(w1, wid, world)
             IN  IF IsCompleted(m.w)
                 THEN [w |-> [m.w EXCEPT !.status = COMPLETED, !.completed_at = now],
                       world |-> m.world]
                 ELSE m
        ELSE [w |-> w1, world |-> world]

\* the fresh task ids an operation on w may need
EnoughIds(n) == Len(created_order) + n <= MaxTasks

SetWorld(world) ==
    /\ tasks' = world.tasks
    /\ task_queue' = world.q
    /\ task_queue_set' = world.s
    /\ created_order' = world.order

\* WorkflowEngine.create_workflow
CreateWorkflow(wid) ==
    /\ wid \notin DOMAIN workflows
    /\ workflows' = (wid :> NewWorkflow) @@ workflows
    /\ lastOp' = Op("create_workflow", wid, TRUE, wid)
    /\ UNCHANGED <<tasks, task_queue, task_queue_set, now, last_timeout_check,
                   invoked, created_order, paused_workflows,
                   workflow_templates, threads>>

\* Workflow.add_step on a workflow of the engine
AddStep(wid, step_type, role_name, depends_on, condition) ==
    /\ wid \in DOMAIN workflows
    /\ workflows' = [workflows EXCEPT ![wid] =
                        WorkflowAddStep(@, step_type, role_name, depends_on, condition)]
    /\ lastOp' = Op("add_step", wid, TRUE, Len(workflows[wid].steps) + 1)
    /\ UNCHANGED <<tasks, task_queue, task_queue_set, now, last_timeout_check,
                   invoked, created_order, paused_workflows,
                   workflow_templates, threads>>

\* WorkflowEngine.start_workflow
StartWorkflow(wid) ==
    /\ IF wid \notin DOMAIN workflows
       THEN /\ lastOp' = Op("start_workflow", wid, FALSE, NoId)
            /\ UNCHANGED <<tasks, task_queue, task_queue_set, created_order, workflows, threads>>
       ELSE \E w1 \in {[workflows[wid] EXCEPT !.status = RUNNING,
                                              !.started_at = now]} :
            \E m \in {CreateTasksForReadySteps(w1, wid, World)} :
                /\ EnoughIds(Len(GetReadySteps(w1)))
                /\ workflows' = [workflows EXCEPT ![wid] = m.w]
                /\ SetWorld(m.world)
                /\ lastOp' = Op("start_workflow", wid, TRUE, NoId)
    /\ UNCHANGED <<now, last_timeout_check, invoked, paused_workflows,
                   workflow_templates, threads>>

\* WorkflowEngine.update_workflow
UpdateWorkflow(wid) ==
    /\ IF wid \notin DOMAIN workflows
       THEN /\ lastOp' = Op("update_workflow", wid, FALSE, NoId)
            /\ UNCHANGED <<tasks, task_queue, task_queue_set, created_order, workflows, threads>>
       ELSE \E m \in {UpdateWorkflowState(workflows[wid], wid, World)} :
                /\ EnoughIds(Len(m.world.order) - Len(created_order))
                /\ workflows' = [workflows EXCEPT ![wid] = m.w]
                /\ SetWorld(m.world)
                /\ lastOp' = Op("update_workflow", wid, TRUE, NoId)
    /\ UNCHANGED <<now, last_timeout_check, invoked, paused_workflows,
                   workflow_templates, threads>>

\* -------------------------------------------------- WorkflowPauseManager
\* pause_workflow without the test of the RUNNING status
PauseWorkflow_AnyStatus(wid, reason) ==
    /\ IF wid \notin DOMAIN workflows
       THEN /\ lastOp' = Op("pause_workflow", wid, FALSE, NoId)
            /\ UNCHANGED <<workflows, paused_workflows, threads>>
       ELSE LET w == workflows[wid]
            IN  /\ paused_workflows' =
                      (wid :> [reason |-> reason, paused_at |-> now,
                               running_steps |->
                                   {w.steps[i].step_id :
                                       i \in {j \in 1..Len(w.steps) :
                                                w.steps[j].status = IN_PROGRESS}}])
                      @@ paused_workflows
                /\ workflows' = [workflows EXCEPT ![wid].status = PAUSED]
                /\ lastOp' = Op("pause_workflow", wid, TRUE, NoId)
    /\ UNCHANGED <<tasks, task_queue, task_queue_set, now, last_timeout_check,
                   invoked, created_order, workflow_templates, threads>>

\* pause_workflow that cancels the tasks of the workflow that are in flight
PauseWorkflow_CancelsTasks(wid, reason) ==
    /\ IF wid \notin DOMAIN workflows \/ workflows[wid].status # RUNNING
       THEN /\ lastOp' = Op("pause_workflow", wid, FALSE, NoId)
            /\ UNCHANGED <<workflows, paused_workflows, tasks, threads>>
       ELSE LET w == workflows[wid]
            IN  /\ paused_workflows' =
                      (wid :> [reason |-> reason, paused_at |-> now,
                               running_steps |->
                                   {w.steps[i].step_id :
                                       i \in {j \in 1..Len(w.steps) :
                                                w.steps[j].status = IN_PROGRESS}}])
                      @@ paused_workflows
                /\ workflows' = [workflows EXCEPT ![wid].status = PAUSED]
                /\ tasks' = [i \in DOMAIN tasks |->
                                IF /\ tasks[i].wf = wid
                                   /\ tasks[i].status \in {ASSIGNED, IN_PROGRESS}
                                THEN TaskCancel(tasks[i])
                                ELSE tasks[i]]
                /\ lastOp' = Op("pause_workflow", wid, TRUE, NoId)
    /\ UNCHANGED <<task_queue, task_queue_set, now, last_timeout_check,
                   invoked, created_order, workflow_templates, threads>>

\* WorkflowPauseManager.pause_workflow
PauseWorkflow(wid, reason) ==
    /\ IF wid \notin DOMAIN workflows \/ workflows[wid].status # RUNNING
       THEN /\ lastOp' = Op("pause_workflow", wid, FALSE, NoId)
            /\ UNCHANGED <<workflows, paused_workflows, threads>>
       ELSE LET w == workflows[wid]
            IN  /\ paused_workflows' =
                      (wid :> [reason |-> reason, paused_at |-> now,
                               running_steps |->
                                   {w.steps[i].step_id :
                                       i \in {j \in 1..Len(w.steps) :
                                                w.steps[j].status = IN_PROGRESS}}])
                      @@ paused_workflows
                /\ workflows' = [workflows EXCEPT ![wid].status = PAUSED]
                /\ lastOp' = Op("pause_workflow", wid, TRUE, NoId)
    /\ UNCHANGED <<tasks, task_queue, task_queue_set, now, last_timeout_check,
                   invoked, created_order, workflow_templates, threads>>

\* resume_workflow without the call of update_workflow
ResumeWorkflow_NoUpdate(wid) ==
    /\ IF wid \notin DOMAIN workflows \/ workflows[wid].status # PAUSED
       THEN /\ lastOp' = Op("resume_workflow", wid, FALSE, NoId)
            /\ UNCHANGED <<workflows, paused_workflows, threads>>
       ELSE /\ paused_workflows' =
                  [k \in DOMAIN paused_workflows \ {wid} |-> paused_workflows[k]]
            /\ workflows' = [workflows EXCEPT ![wid].status = RUNNING]
            /\ lastOp' = Op("resume_workflow", wid, TRUE, NoId)
    /\ UNCHANGED <<tasks, task_queue, task_queue_set, created_order,
                   now, last_timeout_check, invoked, workflow_templates,
                   threads>>

\* WorkflowPauseManager.resume_workflow
ResumeWorkflow(wid) ==
    /\ IF wid \notin DOMAIN workflows \/ workflows[wid].status # PAUSED
       THEN /\ lastOp' = Op("resume_workflow", wid, FALSE, NoId)
            /\ UNCHANGED <<tasks, task_queue, task_queue_set, created_order,
                           workflows, paused_workflows, threads>>
       ELSE \E w1 \in {[workflows[wid] EXCEPT !.status = RUNNING]} :
            \E m \in {UpdateWorkflowState(w1, wid, World)} :
                /\ EnoughIds(Len(m.world.order) - Len(created_order))
                /\ paused_workflows' =
                      [k \in DOMAIN paused_workflows \ {wid} |-> paused_workflows[k]]
                /\ workflows' = [workflows EXCEPT ![wid] = m.w]
                /\ SetWorld(m.world)
                /\ lastOp' = Op("resume_workflow", wid, TRUE, NoId)
    /\ UNCHANGED <<now, last_timeout_check, invoked, workflow_templates, threads>>

\* ---------------------------------------------------- workflow templates
\* a step_id the caller of WorkflowStep() chose, such as "analysis"
StepA == 100

\* the names register_all_templates registers, and a name a caller registers
ProjectDevelopment == "project_development"
BugFix == "bug_fix"
Custom == "custom"

\* WorkflowEngine.create_workflow with a list of steps
CreateWorkflowSteps(wid, steps) ==
    /\ wid \notin DOMAIN workflows
    /\ workflows' = (wid :> [NewWorkflow EXCEPT !.steps = steps]) @@ workflows
    /\ lastOp' = Op("create_workflow", wid, TRUE, wid)
    /\ UNCHANGED <<tasks, task_queue, task_queue_set, now, last_timeout_check,
                   invoked, created_order, paused_workflows,
                   workflow_templates, threads>>

\* the workflow create_project_development_workflow builds
ProjectDevelopmentWorkflow ==
    LET s1 == WorkflowAddStep(NewWorkflow, "create_plan", PM, {}, None)
        s2 == WorkflowAddStep(s1, "design_architecture", ARCHITECT, {1}, None)
        s3 == WorkflowAddStep(s2, "implement_ui", FRONTEND, {2}, None)
        s4 == WorkflowAddStep(s3, "implement_api", BACKEND, {2}, None)
    IN  WorkflowAddStep(s4, "monitor_system", DEVOPS, {3, 4}, None)

\* the workflow create_bug_fix_workflow builds
BugFixWorkflow ==
    LET s1 == WorkflowAddStep(NewWorkflow, "solve_problem", ARCHITECT, {}, None)
    IN  WorkflowAddStep(s1, "fix_bug", BACKEND, {1}, None)

\* register_all_templates: both workflows are created through
\* engine.create_workflow, which files them in engine.workflows, and the
\* same objects are registered as templates
RegisterAllTemplates(wid1, wid2) ==
    /\ wid1 # wid2
    /\ wid1 \notin DOMAIN workflows
    /\ wid2 \notin DOMAIN workflows
    /\ workflows' = (wid1 :> ProjectDevelopmentWorkflow)
                     @@ (wid2 :> BugFixWorkflow) @@ workflows
    /\ workflow_templates' = (ProjectDevelopment :> wid1) @@ (BugFix :> wid2)
                              @@ workflow_templates
    /\ lastOp' = Op("register_all_templates", NoId, TRUE, NoId)
    /\ UNCHANGED <<tasks, task_queue, task_queue_set, now, last_timeout_check,
                   invoked, created_order, paused_workflows, threads>>

\* WorkflowEngine.register_template with a workflow of the engine
RegisterTemplate(name, wid) ==
    /\ wid \in DOMAIN workflows
    /\ workflow_templates' = (name :> wid) @@ workflow_templates
    /\ lastOp' = Op("register_template", wid, TRUE, NoId)
    /\ UNCHANGED <<tasks, task_queue, task_queue_set, now, last_timeout_check,
                   invoked, created_order, workflows, paused_workflows,
                   threads>>

\* the loop of create_from_template from the template step at position i:
\* add_step names the new step by its position, and depends_on is what the
\* template's dependencies hold under the template step's id
RECURSIVE CopySteps(_, _, _)
CopySteps(w, template, i) ==
    IF i > Len(template.steps)
    THEN w
    ELSE LET step == template.steps[i]
             depends_on == IF step.step_id \in DOMAIN template.dependencies
                           THEN template.dependencies[step.step_id]
                           ELSE {}
         IN  CopySteps(WorkflowAddStep(w, step.step_type, step.role_name,
                                       depends_on, step.condition),
                       template, i + 1)

\* WorkflowEngine.create_from_template; wid is the id uuid4() gives the copy
CreateFromTemplate(template_name, wid) ==
    /\ IF template_name \notin DOMAIN workflow_templates
       THEN /\ lastOp' = Op("create_from_template", NoId, FALSE, NoId)
            /\ UNCHANGED workflows
       ELSE /\ wid \notin DOMAIN workflows
            /\ workflows' =
                  (wid :> CopySteps(NewWorkflow,
                                    workflows[workflow_templates[template_name]], 1))
                  @@ workflows
            /\ lastOp' = Op("create_from_template", NoId, TRUE, wid)
    /\ UNCHANGED <<tasks, task_queue, task_queue_set, now, last_timeout_check,
                   invoked, created_order, paused_workflows,
                   workflow_templates, threads>>

\* ------------------------------------------------------- specifications
\* the identifier uuid4() yields when identifiers are handed out in order
FreshId == Len(created_order) + 1

\* the dependency lists a caller can pass: ids of tasks it has seen, or an
\* id that is in no table
DepInputs == {d \in SUBSET (DOMAIN tasks \cup {MissingId}) : Cardinality(d) <= 2}

\* the workflow under observation
WfIds == {1}

\* TaskManager used directly: create, assign, pop, status updates
Next ==
    \/ /\ Len(created_order) < ApiTasks
       /\ \E deps \in DepInputs : CreateTask(FreshId, "create_plan", MEDIUM, deps)
    \/ \E id \in 1..ApiTasks : AssignTask(id, PM)
    \/ GetNextTask(None)
    \/ \E id \in 1..ApiTasks, st \in {IN_PROGRESS, COMPLETED, FAILED} :
           UpdateTaskStatus(id, st, 7, "e1")

Spec == Init /\ [][Next]_vars

\* dependency cascade: tasks with dependencies, assignments, pops, completions
NextCascade ==
    \/ \E deps \in {d \in SUBSET DOMAIN tasks : Cardinality(d) <= 2} :
           CreateTask(FreshId, "create_plan", MEDIUM, deps)
    \/ \E id \in TaskIds : AssignTask(id, PM)
    \/ GetNextTask(None)
    \/ \E id \in TaskIds : UpdateTaskStatus(id, COMPLETED, 7, None)

SpecCascade == Init /\ [][NextCascade]_vars

\* a workflow is built, started, updated, paused and resumed while the
\* scheduler executes the tasks of its steps
NextWfCreate == \E wid \in WfIds : CreateWorkflow(wid)
NextWfAddStep ==
    \E wid \in WfIds :
        /\ wid \in DOMAIN workflows
        /\ workflows[wid].status = CREATED
        /\ Len(workflows[wid].steps) < MaxSteps
        /\ \E depends_on \in SUBSET (1..Len(workflows[wid].steps)) :
              AddStep(wid, "create_plan", PM, depends_on, None)
NextWfStart == \E wid \in WfIds : StartWorkflow(wid)
NextWfUpdate == \E wid \in WfIds : UpdateWorkflow(wid)
NextWfPause == \E wid \in WfIds : PauseWorkflow(wid, "reason")
NextWfResume == \E wid \in WfIds : ResumeWorkflow(wid)
TotalRuns == LET RECURSIVE Sum(_)
                 Sum(S) == IF S = {} THEN 0
                           ELSE LET i == CHOOSE x \in S : TRUE
                                IN  invoked[i] + Sum(S \ {i})
             IN  Sum(TaskIds)

NextWF ==
    \/ NextWfCreate
    \/ NextWfAddStep
    \/ NextWfStart
    \/ NextWfUpdate
    \/ NextWfPause
    \/ NextWfResume
    \/ \E id \in DOMAIN tasks :
           /\ TotalRuns < WfRuns
           /\ \E outcome \in {WorkerSuccess(WorkerResult(id)), WorkerFailure("e1")} :
                 ExecuteTask(id, NoTime, outcome)

SpecWF == Init /\ [][NextWF]_vars

\* scheduler and timeout sweep: assignment, execution with every outcome of
\* the worker, direct status updates, cancellation, the clock and the sweep
ExecTimeout == 30
NextSchedAssign == \E id \in 1..SchedTasks : SchedulerAssignTask(id)
\* the worker returns a success dict or a failure dict, or raises an
\* exception whose str() is a text or is empty
SchedOutcomes(id) ==
    {WorkerSuccess(WorkerResult(id)), WorkerFailure("e1"),
     WorkerRaise("e1"), WorkerRaise(EmptyStr)}
NextSchedExecute ==
    \E id \in 1..SchedTasks, timeout \in {NoTime, ExecTimeout} :
        /\ invoked[id] < SchedRuns
        /\ \E outcome \in SchedOutcomes(id) : ExecuteTask(id, timeout, outcome)
NextSchedUpdate ==
    \E id \in 1..SchedTasks, st \in {IN_PROGRESS, COMPLETED, FAILED} :
        UpdateTaskStatus(id, st, 7, "e1")

NextSched ==
    \/ /\ Len(created_order) < SchedTasks
       /\ CreateTask(FreshId, "create_plan", MEDIUM, {})
    \/ NextSchedAssign
    \/ AutoAssignPendingTasks
    \/ NextSchedExecute
    \/ NextSchedUpdate
    \/ \E id \in 1..SchedTasks : CancelTask(id)
    \/ GetNextTask(None)
    \/ Tick
    \/ CheckTimeouts

SpecSched == Init /\ [][NextSched]_vars

\* assign_task on ids with and without a task, whose dependencies are
\* absent, pending or completed
NextAssign ==
    \/ /\ Len(created_order) < AssignTasks
       /\ \E deps \in DepInputs : CreateTask(FreshId, "create_plan", MEDIUM, deps)
    \/ \E id \in 1..AssignTasks, role_name \in {PM, ARCHITECT} : AssignTask(id, role_name)
    \/ \E id \in 1..AssignTasks : UpdateTaskStatus(id, COMPLETED, 7, None)
    \/ now + ClockStep <= ExecClock /\ Tick

SpecAssign == Init /\ [][NextAssign]_vars

\* execute_task and the outcomes of the worker: tasks are created, assigned
\* and executed until their retries are used up
NextExecCreate ==
    /\ Len(created_order) < ExecTasks
    /\ CreateTask(FreshId, "create_plan", MEDIUM, {})
NextExecAssign == \E id \in 1..ExecTasks : SchedulerAssignTask(id)

NextExec ==
    \/ NextExecCreate
    \/ NextExecAssign
    \/ \E id \in 1..ExecTasks, timeout \in {NoTime, ExecTimeout} :
           /\ invoked[id] < ExecRuns
           /\ \E outcome \in SchedOutcomes(id) : ExecuteTask(id, timeout, outcome)

SpecExec == Init /\ [][NextExec]_vars

\* execute_task and its early returns: tasks that do not exist, are not
\* assigned, or were started with a timeout that the clock then passes
NextGuard ==
    \/ NextExecCreate
    \/ NextExecAssign
    \/ \E id \in 1..ExecTasks : UpdateTaskStatus(id, IN_PROGRESS, NoResult, None)
    \/ \E id \in 1..ExecTasks, timeout \in {NoTime, ExecTimeout} :
           /\ IF id \in DOMAIN tasks /\ TaskCheckTimeout(tasks[id])
              THEN TRUE
              ELSE invoked[id] < GuardRuns
           /\ \E outcome \in SchedOutcomes(id) : ExecuteTask(id, timeout, outcome)
    \/ now + ClockStep <= ExecClock /\ Tick

SpecGuard == Init /\ [][NextGuard]_vars

\* a worker that fails at every call: tasks are created, assigned by the
\* scheduler and executed again and again
NextRetry ==
    \/ /\ Len(created_order) < RetryTasks
       /\ CreateTask(FreshId, "create_plan", MEDIUM, {})
    \/ \E id \in 1..RetryTasks : SchedulerAssignTask(id)
    \/ \E id \in 1..RetryTasks, outcome \in {WorkerFailure("e1"), WorkerRaise("e1")} :
           ExecuteTask(id, NoTime, outcome)

SpecRetry == Init /\ [][NextRetry]_vars

\* priority queue: dependency-free tasks of every priority, whose uuid4 ids
\* come in any order and whose created_at is the clock's reading
NextPrio ==
    \/ \E id \in TaskIds, priority \in {LOW, MEDIUM, HIGH, URGENT} :
           CreateTask(id, "create_plan", priority, {})
    \/ GetNextTask(None)
    \/ Tick

SpecPrio == Init /\ [][NextPrio]_vars

\* pause and resume: a workflow whose tasks are also started by hand (so
\* that steps are seen IN_PROGRESS) and run by a worker that succeeds
NextPause ==
    \/ NextWfCreate
    \/ NextWfAddStep
    \/ NextWfStart
    \/ NextWfUpdate
    \/ NextWfPause
    \/ NextWfResume
    \/ \E id \in DOMAIN tasks :
           /\ tasks[id].status = ASSIGNED
           /\ UpdateTaskStatus(id, IN_PROGRESS, NoResult, None)
    \/ /\ TotalRuns < PauseRuns
       /\ \E id \in DOMAIN tasks :
             ExecuteTask(id, NoTime, WorkerSuccess(WorkerResult(id)))

SpecPause == Init /\ [][NextPause]_vars

\* a workflow whose tasks fail: status updates to FAILED until the retries
\* are used up
NextWfFailing ==
    \/ NextWfCreate
    \/ NextWfAddStep
    \/ NextWfStart
    \/ NextWfUpdate
    \/ \E id \in DOMAIN tasks : UpdateTaskStatus(id, FAILED, NoResult, "e1")

SpecWfFailing == Init /\ [][NextWfFailing]_vars

\* the template registry: register_all_templates, a template a caller builds
\* from a step it named itself and extends with add_step, copies, and the
\* engine and pause operations on every workflow id the engine knows
TemplateNames == {ProjectDevelopment, BugFix, Custom}
FreshWid == Cardinality(DOMAIN workflows) + 1
NamedByCaller(w) == Len(w.steps) > 0 /\ w.steps[1].step_id = StepA

NextTemplate ==
    \/ /\ Cardinality(DOMAIN workflows) + 2 <= MaxWorkflows
       /\ RegisterAllTemplates(FreshWid, FreshWid + 1)
    \/ /\ Cardinality(DOMAIN workflows) < MaxWorkflows
       /\ \A wid \in DOMAIN workflows : ~NamedByCaller(workflows[wid])
       /\ CreateWorkflowSteps(FreshWid, <<NewStep(StepA, "create_plan", PM, None)>>)
    \/ \E wid \in DOMAIN workflows :
           /\ workflows[wid].status = CREATED
           /\ Len(workflows[wid].steps) < MaxSteps
           /\ NamedByCaller(workflows[wid])
           /\ \E depends_on \in SUBSET {workflows[wid].steps[i].step_id :
                                          i \in 1..Len(workflows[wid].steps)} :
                 AddStep(wid, "design_architecture", ARCHITECT, depends_on, None)
    \/ \E wid \in DOMAIN workflows : RegisterTemplate(Custom, wid)
    \/ \E template_name \in TemplateNames :
           /\ template_name \in DOMAIN workflow_templates =>
                 Cardinality(DOMAIN workflows) < MaxWorkflows
           /\ CreateFromTemplate(template_name, FreshWid)
    \/ \E wid \in DOMAIN workflows :
           StartWorkflow(wid) /\ Len(created_order') <= TplTasks
    \/ \E wid \in DOMAIN workflows :
           UpdateWorkflow(wid) /\ Len(created_order') <= TplTasks
    \/ \E wid \in DOMAIN workflows : PauseWorkflow(wid, "reason")
    \/ \E wid \in DOMAIN workflows :
           ResumeWorkflow(wid) /\ Len(created_order') <= TplTasks
    \/ \E id \in DOMAIN tasks :
           /\ TotalRuns < TplRuns
           /\ ExecuteTask(id, NoTime, WorkerSuccess(WorkerResult(id)))

SpecTemplate == Init /\ [][NextTemplate]_vars

\* get_ready_steps on workflows whose steps depend on nothing, on the step
\* before them or on a step that does not exist, carry a condition or none,
\* and are in every status a task gives
NextReady ==
    \/ NextWfCreate
    \/ \E wid \in WfIds :
           /\ wid \in DOMAIN workflows
           /\ workflows[wid].status = CREATED
           /\ Len(workflows[wid].steps) < ReadySteps
           /\ \E depends_on \in {{}, {StepA}, {Len(workflows[wid].steps)} \ {0}},
                 condition \in {None, "step_1_done"} :
                 AddStep(wid, "create_plan", PM, depends_on, condition)
    \/ NextWfStart
    \/ NextWfUpdate
    \/ \E id \in DOMAIN tasks :
           /\ tasks[id].status = ASSIGNED
           /\ UpdateTaskStatus(id, IN_PROGRESS, NoResult, None)
    \/ \E id \in DOMAIN tasks :
           /\ TotalRuns < ReadyRuns
           /\ \E outcome \in {WorkerSuccess(WorkerResult(id)), WorkerFailure("e1")} :
                 ExecuteTask(id, NoTime, outcome)
    \/ \E wid \in WfIds : CallGetReadySteps(wid)

SpecReady == Init /\ [][NextReady]_vars

\* auto_assign_pending_tasks over tasks of mapped and unmapped types whose
\* dependencies are absent, open or completed, and that are cancelled or
\* completed by hand
NextAuto ==
    \/ /\ Len(created_order) < AutoTasks
       /\ \E task_type \in {"create_plan", "implement_api", "write_docs"},
             deps \in DepInputs :
             CreateTask(FreshId, task_type, MEDIUM, deps)
    \/ \E id \in 1..AutoTasks : UpdateTaskStatus(id, COMPLETED, 7, None)
    \/ \E id \in 1..AutoTasks : CancelTask(id)
    \/ AutoAssignPendingTasks

SpecAuto == Init /\ [][NextAuto]_vars

\* execute_task with a knowledge base that takes the write or raises
NextSink ==
    \/ /\ Len(created_order) < SinkTasks
       /\ CreateTask(FreshId, "create_plan", MEDIUM, {})
    \/ \E id \in 1..SinkTasks : SchedulerAssignTask(id)
    \/ \E id \in 1..SinkTasks :
           /\ invoked[id] < SinkRuns
           /\ \E outcome \in SchedOutcomes(id), sink \in {"ok", "raise"} :
                 ExecuteTask(id, NoTime, [outcome EXCEPT !.sink = sink])

SpecSink == Init /\ [][NextSink]_vars

\* --------------------------------------------------------------- Database
\* A TEXT column: NULL, or the text json.dumps / isoformat wrote for a value
\* Task.to_dict: enum values, ISO text of the timestamps, None when unset
TaskToDict(t) ==
    LET iso(ts) == [null |-> ts = NoTime, text |-> ts]
    IN  [task_type |-> t.task_type, assigned_to |-> t.assigned_to,
         priority |-> t.priority, dependencies |-> t.dependencies,
         status |-> t.status, created_at |-> iso(t.created_at),
         assigned_at |-> iso(t.assigned_at), started_at |-> iso(t.started_at),
         completed_at |-> iso(t.completed_at), result |-> t.result,
         error |-> t.error, retry_count |-> t.retry_count,
         max_retries |-> t.max_retries, timeout_seconds |-> t.timeout_seconds]

\* the row Database.save_task writes: "json.dumps(task.result) if task.result
\* else None" writes NULL for None and for the empty dict
SaveTask(t) ==
    LET iso(ts) == [null |-> ts = NoTime, text |-> ts]
        dumps(v) == [null |-> FALSE, text |-> v]
    IN  [task_type |-> t.task_type, assigned_to |-> t.assigned_to,
         priority |-> t.priority, dependencies |-> dumps(t.dependencies),
         status |-> t.status, created_at |-> iso(t.created_at),
         assigned_at |-> iso(t.assigned_at), started_at |-> iso(t.started_at),
         completed_at |-> iso(t.completed_at),
         result |-> IF t.result \in {NoResult, EmptyDict}
                    THEN [null |-> TRUE, text |-> NoResult]
                    ELSE dumps(t.result),
         error |-> t.error, retry_count |-> t.retry_count,
         max_retries |-> t.max_retries, timeout_seconds |-> t.timeout_seconds]

\* the dict Database.load_tasks builds of a row: dependencies and result are
\* parsed when the column is set, the other columns are returned as stored
LoadTask(row) ==
    [row EXCEPT !.dependencies = IF row.dependencies.null THEN {}
                                 ELSE row.dependencies.text,
                !.result = IF row.result.null THEN NoResult
                           ELSE row.result.text]

\* Database.save_task(task) on a new database, then Database.load_tasks():
\* lastOp.ok is True when the save returned True and the load returned the
\* task, lastOp.loaded is the dict loaded
SaveTaskLoadTasks(id) ==
    /\ id \in DOMAIN tasks
    /\ lastOp' = Op("load_tasks", id, TRUE, NoId)
                    @@ [loaded |-> LoadTask(SaveTask(tasks[id]))]
    /\ UNCHANGED <<tasks, task_queue, task_queue_set, now, last_timeout_check,
                   invoked, created_order, workflows, paused_workflows,
                   workflow_templates, threads>>

\* Database.save_workflow: the attributes it reads of the Workflow and of
\* each WorkflowStep against the attributes their constructors set; a read
\* of a missing attribute raises AttributeError, which the method catches to
\* return False with nothing written
SaveWorkflow(w) ==
    LET workflow_attrs == {"id", "name", "description", "steps", "metadata",
                           "status", "created_at", "started_at",
                           "completed_at", "context", "dependencies"}
        step_attrs == {"step_id", "step_type", "role_name", "input_data",
                       "condition", "metadata", "status", "task_id",
                       "result", "error"}
        workflow_reads == {"id", "name", "description", "status",
                           "template_name", "metadata", "created_at",
                           "started_at", "completed_at"}
        step_reads == {"step_id", "step_type", "dependencies", "status",
                       "task_id", "result", "error"}
        raised == \/ ~(workflow_reads \subseteq workflow_attrs)
                  \/ /\ w.steps # <<>>
                     /\ ~(step_reads \subseteq step_attrs)
    IN  [ok |-> ~raised,
         rows |-> IF raised THEN <<>>
                  ELSE [i \in DOMAIN w.steps |->
                           [step_id |-> w.steps[i].step_id,
                            step_type |-> w.steps[i].step_type,
                            status |-> w.steps[i].status,
                            task_id |-> w.steps[i].task_id,
                            error |-> w.steps[i].error]]]

\* Database.save_workflow(workflow) on a new database, then
\* Database.load_workflows(): lastOp.ok is True when the save returned True
\* and the load returned the workflow, lastOp.loaded its "steps"
SaveWorkflowLoadWorkflows(wid) ==
    /\ wid \in DOMAIN workflows
    /\ LET saved == SaveWorkflow(workflows[wid])
       IN  lastOp' = Op("load_workflows", wid, saved.ok, NoId)
                        @@ [loaded |-> saved.rows]
    /\ UNCHANGED <<tasks, task_queue, task_queue_set, now, last_timeout_check,
                   invoked, created_order, workflows, paused_workflows,
                   workflow_templates, threads>>

\* tasks and workflows in the states the managers give them, saved and loaded
NextStore ==
    \/ /\ Len(created_order) < StoreTasks
       /\ \E deps \in SUBSET (DOMAIN tasks) :
              CreateTask(FreshId, "create_plan", MEDIUM, deps)
    \/ \E id \in 1..StoreTasks : AssignTask(id, PM)
    \/ \E id \in 1..StoreTasks, status \in {COMPLETED, FAILED} :
           \E result \in {NoResult, WorkerResult(id)} :
               UpdateTaskStatus(id, status, result, None)
    \/ CreateWorkflow(1)
    \/ /\ 1 \in DOMAIN workflows
       /\ Len(workflows[1].steps) < StoreTasks
       /\ AddStep(1, "create_plan", PM, {}, None)
    \/ \E id \in 1..StoreTasks : SaveTaskLoadTasks(id)
    \/ SaveWorkflowLoadWorkflows(1)

SpecStore == Init /\ [][NextStore]_vars

\* ---------------------------------------------------------------- threads
\* Threads of the host (the web interface runs its handlers in threads) that
\* call TaskManager.create_task and TaskManager.assign_task, one statement
\* of create_task, _add_to_queue, assign_task and _remove_from_queue a step;
\* the TaskManager takes no lock. A thread assigns a task whose create_task
\* has returned.
NextThreads ==
    \* create_task: task = Task(...); self.tasks[task.id] = task; no
    \* dependencies, so _add_to_queue(task) is called
    \/ \E th \in 1..MaxThreads :
           /\ threads[th].pc = "idle"
           /\ Len(created_order) < ThreadTasks
           /\ tasks' = (FreshId :> NewTask("create_plan", MEDIUM, {}, NoId, NoId))
                          @@ tasks
           /\ created_order' = Append(created_order, FreshId)
           /\ threads' = [threads EXCEPT ![th] = [pc |-> "add_test",
                                                  task_id |-> FreshId,
                                                  new_queue |-> <<>>]]
           /\ UNCHANGED <<task_queue, task_queue_set, now, last_timeout_check,
                          invoked, workflows, paused_workflows,
                          workflow_templates, lastOp>>
    \* _add_to_queue: if task.id not in self._task_queue_set
    \/ \E th \in 1..MaxThreads :
           /\ threads[th].pc = "add_test"
           /\ IF threads[th].task_id \notin task_queue_set
              THEN /\ threads' = [threads EXCEPT ![th].pc = "add_push"]
                   /\ UNCHANGED lastOp
              ELSE /\ threads' = [threads EXCEPT ![th] = Idle]
                   /\ lastOp' = Op("create_task", threads[th].task_id, TRUE,
                                   threads[th].task_id)
           /\ UNCHANGED <<tasks, task_queue, task_queue_set, now,
                          last_timeout_check, invoked, created_order,
                          workflows, paused_workflows, workflow_templates>>
    \* _add_to_queue: heapq.heappush(self.task_queue, ...)
    \/ \E th \in 1..MaxThreads :
           /\ threads[th].pc = "add_push"
           /\ task_queue' = HeapPush(task_queue,
                                     <<0 - tasks[threads[th].task_id].priority,
                                       tasks[threads[th].task_id].created_at,
                                       threads[th].task_id>>)
           /\ threads' = [threads EXCEPT ![th].pc = "add_set"]
           /\ UNCHANGED <<tasks, task_queue_set, now, last_timeout_check,
                          invoked, created_order, workflows, paused_workflows,
                          workflow_templates, lastOp>>
    \* _add_to_queue: self._task_queue_set.add(task.id); create_task returns
    \/ \E th \in 1..MaxThreads :
           /\ threads[th].pc = "add_set"
           /\ task_queue_set' = task_queue_set \cup {threads[th].task_id}
           /\ threads' = [threads EXCEPT ![th] = Idle]
           /\ lastOp' = Op("create_task", threads[th].task_id, TRUE,
                           threads[th].task_id)
           /\ UNCHANGED <<tasks, task_queue, now, last_timeout_check, invoked,
                          created_order, workflows, paused_workflows,
                          workflow_templates>>
    \* assign_task: the task exists and has no dependencies; task.assign(role)
    \/ \E th \in 1..MaxThreads, id \in 1..ThreadTasks :
           /\ threads[th].pc = "idle"
           /\ id \in DOMAIN tasks
           /\ \A other \in 1..MaxThreads : threads[other].task_id # id
           /\ tasks' = [tasks EXCEPT ![id] = TaskAssign(tasks[id], PM)]
           /\ threads' = [threads EXCEPT ![th] = [pc |-> "remove_test",
                                                  task_id |-> id,
                                                  new_queue |-> <<>>]]
           /\ UNCHANGED <<task_queue, task_queue_set, now, last_timeout_check,
                          invoked, created_order, workflows, paused_workflows,
                          workflow_templates, lastOp>>
    \* _remove_from_queue: if task_id in self._task_queue_set
    \/ \E th \in 1..MaxThreads :
           /\ threads[th].pc = "remove_test"
           /\ IF threads[th].task_id \in task_queue_set
              THEN /\ threads' = [threads EXCEPT ![th].pc = "remove_rebuild"]
                   /\ UNCHANGED lastOp
              ELSE /\ threads' = [threads EXCEPT ![th] = Idle]
                   /\ lastOp' = Op("assign_task", threads[th].task_id, TRUE, NoId)
           /\ UNCHANGED <<tasks, task_queue, task_queue_set, now,
                          last_timeout_check, invoked, created_order,
                          workflows, paused_workflows, workflow_templates>>
    \* _remove_from_queue: new_queue = [... if tid != task_id]; heapify
    \/ \E th \in 1..MaxThreads :
           /\ threads[th].pc = "remove_rebuild"
           /\ threads' = [threads EXCEPT
                 ![th].pc = "remove_store",
                 ![th].new_queue =
                     SelectSeq(task_queue,
                               LAMBDA e : e[3] # threads[th].task_id)]
           /\ UNCHANGED <<tasks, task_queue, task_queue_set, now,
                          last_timeout_check, invoked, created_order,
                          workflows, paused_workflows, workflow_templates,
                          lastOp>>
    \* _remove_from_queue: self.task_queue = new_queue
    \/ \E th \in 1..MaxThreads :
           /\ threads[th].pc = "remove_store"
           /\ task_queue' = threads[th].new_queue
           /\ threads' = [threads EXCEPT ![th].pc = "remove_discard"]
           /\ UNCHANGED <<tasks, task_queue_set, now, last_timeout_check,
                          invoked, created_order, workflows, paused_workflows,
                          workflow_templates, lastOp>>
    \* _remove_from_queue: self._task_queue_set.discard(task_id);
    \* assign_task returns True
    \/ \E th \in 1..MaxThreads :
           /\ threads[th].pc = "remove_discard"
           /\ task_queue_set' = task_queue_set \ {threads[th].task_id}
           /\ threads' = [threads EXCEPT ![th] = Idle]
           /\ lastOp' = Op("assign_task", threads[th].task_id, TRUE, NoId)
           /\ UNCHANGED <<tasks, task_queue, now, last_timeout_check, invoked,
                          created_order, workflows, paused_workflows,
                          workflow_templates>>

SpecThreads == Init /\ [][NextThreads]_vars

\* tasks of two priorities, whose uuid4 ids come in any order, that are
\* assigned, fail and are re-queued by the retry branch while others wait
NextSenior ==
    \/ \E id \in 1..SeniorTasks, priority \in {MEDIUM, HIGH} :
           CreateTask(id, "create_plan", priority, {})
    \/ \E id \in 1..SeniorTasks : AssignTask(id, PM)
    \/ \E id \in 1..SeniorTasks : UpdateTaskStatus(id, FAILED, NoResult, "e1")
    \/ GetNextTask(None)
    \/ now + ClockStep <= ExecClock /\ Tick

SpecSenior == Init /\ [][NextSenior]_vars

\* tasks of two roles in the queue, and get_next_task called without a role
\* and with the role of either
NextRole ==
    \/ /\ Len(created_order) < RoleTasks
       /\ \E task_type \in {"create_plan", "design_architecture"},
             priority \in {MEDIUM, HIGH} :
              CreateTask(FreshId, task_type, priority, {})
    \/ \E id \in 1..RoleTasks, role_name \in {PM, ARCHITECT} :
           AssignTask(id, role_name)
    \/ \E id \in 1..RoleTasks : UpdateTaskStatus(id, FAILED, NoResult, "e1")
    \/ \E role_name \in {None, PM, ARCHITECT} : GetNextTask(role_name)

SpecRole == Init /\ [][NextRole]_vars

\* EnhancedTaskManager.cleanup_old_tasks: the tasks COMPLETED, FAILED or
\* CANCELLED whose completed_at is before now - days are deleted from the
\* table and each is passed to _remove_from_queue; returns their number
CleanupOldTasks(days) ==
    LET to_remove == {id \in DOMAIN tasks :
                         /\ tasks[id].status \in {COMPLETED, FAILED, CANCELLED}
                         /\ tasks[id].completed_at # NoTime
                         /\ tasks[id].completed_at < now - days * DaySeconds}
        RECURSIVE RemoveAll(_, _, _)
        RemoveAll(q, qs, ids) ==
            IF ids = {}
            THEN [q |-> q, s |-> qs]
            ELSE LET i == CHOOSE x \in ids : TRUE
                     rq == RemoveFromQueue(q, qs, i)
                 IN  RemoveAll(rq.q, rq.s, ids \ {i})
    IN  /\ tasks' = [id \in DOMAIN tasks \ to_remove |-> tasks[id]]
        /\ \E r \in {RemoveAll(task_queue, task_queue_set, to_remove)} :
               /\ task_queue' = r.q
               /\ task_queue_set' = r.s
        /\ lastOp' = Op("cleanup_old_tasks", days, TRUE, Cardinality(to_remove))
        /\ UNCHANGED <<now, last_timeout_check, invoked, created_order,
                       workflows, paused_workflows, workflow_templates,
                       threads>>

\* the TaskManager API with the clock running and old tasks cleaned up
NextCleanup ==
    \/ /\ Len(created_order) < CleanTasks
       /\ \E priority \in {MEDIUM, HIGH} :
              CreateTask(FreshId, "create_plan", priority, {})
    \/ \E id \in DOMAIN tasks :
           tasks[id].status = PENDING /\ AssignTask(id, PM)
    \/ GetNextTask(None)
    \/ \E id \in DOMAIN tasks :
           /\ tasks[id].status \in {PENDING, ASSIGNED}
           /\ UpdateTaskStatus(id, COMPLETED, NoResult, None)
    \/ \E id \in DOMAIN tasks :
           /\ tasks[id].status = ASSIGNED
           /\ tasks[id].completed_at = NoTime
           /\ UpdateTaskStatus(id, FAILED, NoResult, "e1")
    \/ now + ClockStep <= ExecClock /\ Tick
    \/ \E days \in {0, 30} : CleanupOldTasks(days)

SpecCleanup == Init /\ [][NextCleanup]_vars

\* progress of a workflow: steps without conditions that depend on earlier
\* steps, workers that succeed.  A call that materializes steps is taken
\* only while an identifier is left for every step that has no task yet.
IdsLeftForSteps ==
    \A wid \in DOMAIN workflows' :
        Len(created_order')
        + Cardinality({i \in 1..Len(workflows'[wid].steps) :
                          workflows'[wid].steps[i].task_id = NoId}) <= LiveTasks

\* update_workflow, called again and again by the owner of the workflow
UpdateWhileRunning == \E wid \in WfIds : UpdateWorkflow(wid) /\ IdsLeftForSteps

\* execute_task with a worker that succeeds, on the task a step refers to
ExecuteReferencedTask ==
    \E wid \in DOMAIN workflows :
        \E i \in 1..Len(workflows[wid].steps) :
            \E id \in {workflows[wid].steps[i].task_id} \ {NoId} :
                /\ tasks[id].status # COMPLETED
                /\ ExecuteTask(id, NoTime, WorkerSuccess(WorkerResult(id)))

NextLive ==
    \/ NextWfCreate
    \/ \E wid \in DOMAIN workflows :
           /\ workflows[wid].status = CREATED
           /\ Len(workflows[wid].steps) < MaxSteps
           /\ \E depends_on \in SUBSET (1..Len(workflows[wid].steps)),
                 role_name \in {PM, ARCHITECT} :
                 AddStep(wid, "create_plan", role_name, depends_on, None)
    \/ \E wid \in WfIds : StartWorkflow(wid) /\ IdsLeftForSteps
    \/ UpdateWhileRunning
    \/ ExecuteReferencedTask

\* the task a step refers to is executed when it stays executable, and
\* update_workflow is called infinitely often unless the workflow leaves
\* RUNNING infinitely often
SpecLive ==
    /\ Init
    /\ [][NextLive]_vars
    /\ WF_vars(ExecuteReferencedTask)
    /\ \/ []<>(\A wid \in DOMAIN workflows : workflows[wid].status # RUNNING)
       \/ []<><<UpdateWhileRunning>>_vars

\* execute_task called by several threads, statement by statement: the
\* early returns, update_task_status(IN_PROGRESS), the call of the worker,
\* and the update_task_status with what the worker returned.  The method
\* takes no lock.
NextExecThreads ==
    \/ /\ Len(created_order) < ExecTasks
       /\ \E priority \in {MEDIUM, HIGH} :
              CreateTask(FreshId, "create_plan", priority, {})
    \/ \E id \in DOMAIN tasks, role_name \in {PM, ARCHITECT} :
           tasks[id].status = PENDING /\ AssignTask(id, role_name)
    \* task = get_task(task_id) and the early returns
    \/ \E th \in 1..MaxThreads, id \in DOMAIN tasks :
           /\ threads[th].pc = "idle"
           /\ IF ExecuteRefused(tasks, id)
              THEN /\ lastOp' = OpErr("execute_task", id, FALSE,
                                      ExecuteRefusal(tasks, id))
                   /\ UNCHANGED threads
              ELSE /\ threads' = [threads EXCEPT ![th] =
                                     [pc |-> "exec_start", task_id |-> id,
                                      new_queue |-> <<>>]]
                   /\ UNCHANGED lastOp
           /\ UNCHANGED <<tasks, task_queue, task_queue_set, now,
                          last_timeout_check, invoked, created_order,
                          workflows, paused_workflows, workflow_templates>>
    \* self.task_manager.update_task_status(task_id, TaskStatus.IN_PROGRESS)
    \/ \E th \in 1..MaxThreads :
           /\ threads[th].pc = "exec_start"
           /\ \E st \in {UpdateStatusState(tasks, task_queue, task_queue_set,
                                          threads[th].task_id, IN_PROGRESS,
                                          NoResult, None)} :
                  /\ tasks' = st.tasks
                  /\ task_queue' = st.q
                  /\ task_queue_set' = st.s
           /\ threads' = [threads EXCEPT ![th].pc = "exec_worker"]
           /\ UNCHANGED <<now, last_timeout_check, invoked, created_order,
                          workflows, paused_workflows, workflow_templates,
                          lastOp>>
    \* result = digital_human.execute_task(task_dict)
    \/ \E th \in 1..MaxThreads :
           /\ threads[th].pc = "exec_worker"
           /\ invoked[threads[th].task_id] < MaxAttempts
           /\ invoked' = [invoked EXCEPT ![threads[th].task_id] = @ + 1]
           /\ threads' = [threads EXCEPT ![th].pc = "exec_result"]
           /\ UNCHANGED <<tasks, task_queue, task_queue_set, now,
                          last_timeout_check, created_order, workflows,
                          paused_workflows, workflow_templates, lastOp>>
    \* update_task_status(COMPLETED, result) or (FAILED, error); return
    \/ \E th \in 1..MaxThreads :
           /\ threads[th].pc = "exec_result"
           /\ \E id \in {threads[th].task_id} :
              \E outcome \in {WorkerSuccess(WorkerResult(id)), WorkerFailure("e1")} :
              \E st \in {IF outcome.kind = "success"
                         THEN UpdateStatusState(tasks, task_queue, task_queue_set,
                                                id, COMPLETED, outcome.val, None)
                         ELSE UpdateStatusState(tasks, task_queue, task_queue_set,
                                                id, FAILED, NoResult, outcome.err)} :
                  /\ tasks' = st.tasks
                  /\ task_queue' = st.q
                  /\ task_queue_set' = st.s
                  /\ lastOp' = OpErr("execute_task", id, outcome.kind = "success",
                                     outcome.err)
           /\ threads' = [threads EXCEPT ![th] = Idle]
           /\ UNCHANGED <<now, last_timeout_check, invoked, created_order,
                          workflows, paused_workflows, workflow_templates>>

SpecExecThreads == Init /\ [][NextExecThreads]_vars

\* ---------------------------------------------------------------- claims
UnmetDeps(b) ==
    {d \in tasks[b].dependencies : d \in DOMAIN tasks /\ tasks[d].status # COMPLETED}

\* C1: a task with a dependency D whose status is not COMPLETED is not in the
\* priority queue, is not the task get_next_task returned, and is not a task
\* assign_task assigned.
C1_DependencyGating ==
    \A b \in DOMAIN tasks :
        UnmetDeps(b) # {} =>
            /\ b \notin QueueIds(task_queue)
            /\ ~(lastOp.op = "get_next_task" /\ lastOp.val = b)
            /\ ~(lastOp.op \in {"assign_task", "scheduler_assign_task"}
                 /\ lastOp.arg = b /\ lastOp.ok)

\* C5: update_task_status(id, COMPLETED) adds to the queue exactly the PENDING,
\* not yet enqueued dependents of id whose every dependency is then COMPLETED,
\* removes nothing, and leaves the membership of every other task alone.
C5_CompletionCascade ==
    [][\A id \in TaskIds :
          (UpdateTaskStatus(id, COMPLETED, 7, None) /\ id \in DOMAIN tasks) =>
             LET before == QueueIds(task_queue)
                 after == QueueIds(task_queue')
                 unlocked == {b \in DOMAIN tasks :
                                 /\ id \in tasks[b].dependencies
                                 /\ tasks[b].status = PENDING
                                 /\ b \notin before
                                 /\ \A d \in tasks[b].dependencies :
                                       d \in DOMAIN tasks' /\ tasks'[d].status = COMPLETED}
             IN  /\ after \ before = unlocked
                 /\ before \subseteq after
                 /\ \A b \in DOMAIN tasks :
                       id \notin tasks[b].dependencies => (b \in after <=> b \in before)
                 /\ task_queue_set' = task_queue_set \cup unlocked]_vars

\* a completion unlocked one dependent and left another one blocked
C5_Witness ==
    /\ lastOp.op = "update_task_status"
    /\ \E b1, b2 \in DOMAIN tasks :
          /\ lastOp.arg \in tasks[b1].dependencies
          /\ lastOp.arg \in tasks[b2].dependencies
          /\ tasks[b1].status = PENDING /\ b1 \in QueueIds(task_queue)
          /\ tasks[b2].status = PENDING /\ b2 \notin QueueIds(task_queue)
          /\ UnmetDeps(b2) # {}

\* the task a step refers to is in the table and is COMPLETED
StepTaskCompleted(w, tt, i) ==
    /\ w.steps[i].task_id # NoId
    /\ w.steps[i].task_id \in DOMAIN tt
    /\ tt[w.steps[i].task_id].status = COMPLETED

\* C2: once a step has a task_id it keeps it, and no second Task is created
\* for the step.
C2_StepMaterializedOnce ==
    [][\A wid \in DOMAIN workflows :
          \A i \in 1..Len(workflows[wid].steps) :
              workflows[wid].steps[i].task_id # NoId =>
                  /\ workflows'[wid].steps[i].task_id = workflows[wid].steps[i].task_id
                  /\ Cardinality({t \in DOMAIN tasks' :
                        tasks'[t].wf = wid /\ tasks'[t].step = i}) <= 1]_vars

C7_PausedUpdateCreatesNothing ==
    [][\A wid \in DOMAIN workflows :
          (UpdateWorkflow(wid) /\ workflows[wid].status = PAUSED) =>
              /\ tasks' = tasks
              /\ task_queue' = task_queue
              /\ \A i \in 1..Len(workflows[wid].steps) :
                    workflows'[wid].steps[i].task_id = workflows[wid].steps[i].task_id
              /\ workflows'[wid].status = PAUSED]_vars

\* an update ran on a PAUSED workflow that has a ready step without a task
C7_Witness ==
    /\ lastOp.op = "update_workflow"
    /\ 1 \in DOMAIN workflows
    /\ workflows[1].status = PAUSED
    /\ \E i \in 1..Len(workflows[1].steps) :
          /\ StepReady(workflows[1], i)
          /\ workflows[1].steps[i].task_id = NoId
          /\ i \in DOMAIN workflows[1].dependencies

\* C8: resume_workflow gives a Task to every step that is ready and has none,
\* and gives no new Task to a step that already has a task_id.
C8_ResumeMaterializesExactlyNewReady ==
    [][\A wid \in DOMAIN workflows :
          (ResumeWorkflow(wid) /\ workflows[wid].status = PAUSED) =>
              \A i \in 1..Len(workflows[wid].steps) :
                  IF workflows[wid].steps[i].task_id # NoId
                  THEN workflows'[wid].steps[i].task_id = workflows[wid].steps[i].task_id
                  ELSE StepReady(SyncWorkflow(workflows[wid], tasks), i) =>
                          /\ workflows'[wid].steps[i].task_id \in DOMAIN tasks' \ DOMAIN tasks
                          /\ Cardinality({t \in DOMAIN tasks' :
                                tasks'[t].wf = wid /\ tasks'[t].step = i}) = 1]_vars

\* C3: with a worker that always fails, the execute_task that makes the
\* fourth invocation leaves the task FAILED with retry_count = 3, the worker
\* is never invoked more than four times, and execute_task on the exhausted
\* task neither invokes the worker nor changes the status.
C3_RetryBound ==
    /\ [](\A id \in DOMAIN tasks : invoked[id] <= DefaultMaxRetries + 1)
    /\ [][\A id \in DOMAIN tasks :
             (\E outcome \in {WorkerFailure("e1"), WorkerRaise("e1")} :
                 ExecuteTask(id, NoTime, outcome)) =>
                /\ (invoked[id] = DefaultMaxRetries /\ invoked'[id] = DefaultMaxRetries + 1)
                   => /\ tasks'[id].status = FAILED
                      /\ tasks'[id].retry_count = DefaultMaxRetries
                /\ (tasks[id].status = FAILED /\ tasks[id].retry_count = tasks[id].max_retries)
                   => /\ invoked'[id] = invoked[id]
                      /\ tasks'[id].status = FAILED]_vars

\* the position of a task in the order of creation
CreatedPos(id) == CHOOSE i \in 1..Len(created_order) : created_order[i] = id

\* id is served before other: higher priority, or equal priority and created
\* earlier
ServedBefore(id, other) ==
    \/ tasks[id].priority > tasks[other].priority
    \/ /\ tasks[id].priority = tasks[other].priority
       /\ CreatedPos(id) < CreatedPos(other)

\* C4: get_next_task returns the queued task of the highest priority, the
\* first created among those of equal priority, and takes it (and nothing
\* else) out of the queue; on an empty queue it returns None.
C4_PriorityOrder ==
    [][GetNextTask(None) =>
          IF task_queue_set = {}
          THEN lastOp'.val = NoId
          ELSE /\ lastOp'.val \in task_queue_set
               /\ \A other \in task_queue_set \ {lastOp'.val} :
                     ServedBefore(lastOp'.val, other)
               /\ task_queue_set' = task_queue_set \ {lastOp'.val}]_vars

\* COMPLETED, CANCELLED, or FAILED with the retries used up
Terminal(t) ==
    \/ t.status \in {COMPLETED, CANCELLED}
    \/ t.status = FAILED /\ t.retry_count = t.max_retries

\* C9: assign_task, update_task_status, execute_task,
\* auto_assign_pending_tasks and get_next_task leave the status of a task in a
\* terminal state as it is.
C9_TerminalAbsorbing ==
    [][(\/ NextSchedAssign
        \/ NextSchedUpdate
        \/ NextSchedExecute
        \/ AutoAssignPendingTasks
        \/ GetNextTask(None)) =>
          \A id \in DOMAIN tasks :
              Terminal(tasks[id]) => tasks'[id].status = tasks[id].status]_vars

\* C10: a task the timeout sweep finds timed out goes back to PENDING with
\* one more retry counted and is in the queue again if it has retries left,
\* and stays FAILED otherwise.
C10_TimeoutConsumesRetry ==
    [][(CheckTimeouts /\ now - last_timeout_check >= TimeoutCheckInterval) =>
          \A id \in DOMAIN tasks :
              TaskCheckTimeout(tasks[id]) =>
                  IF tasks[id].retry_count < tasks[id].max_retries
                  THEN /\ tasks'[id].retry_count = tasks[id].retry_count + 1
                       /\ tasks'[id].status = PENDING
                       /\ id \in task_queue_set'
                       /\ id \in QueueIds(task_queue')
                  ELSE tasks'[id].status = FAILED]_vars

\* C11: while a task is CANCELLED, get_next_task does not return it,
\* assign_task and auto_assign_pending_tasks do not assign it, and
\* execute_task neither invokes the worker for it nor changes its status.
C11_CancelledNotScheduled ==
    [][\A id \in DOMAIN tasks :
          tasks[id].status = CANCELLED =>
              /\ GetNextTask(None) => lastOp'.val # id
              /\ (NextSchedAssign \/ AutoAssignPendingTasks) =>
                    /\ tasks'[id].status = CANCELLED
                    /\ tasks'[id].assigned_to = tasks[id].assigned_to
              /\ NextSchedExecute =>
                    /\ invoked'[id] = invoked[id]
                    /\ tasks'[id].status = CANCELLED]_vars

\* C12: execute_task invokes the worker only for a task that exists, has an
\* assigned role and is not past its timeout; when the task is missing, is
\* not assigned or is past its timeout, execute_task returns success = false
\* with an error text and changes nothing.
C12_ExecuteGuards ==
    [][\A id \in 1..ExecTasks :
          (\E timeout \in {NoTime, ExecTimeout}, outcome \in SchedOutcomes(id) :
              ExecuteTask(id, timeout, outcome)) =>
             /\ invoked'[id] # invoked[id] =>
                   /\ id \in DOMAIN tasks
                   /\ tasks[id].assigned_to # None
                   /\ ~(/\ tasks[id].status = IN_PROGRESS
                        /\ tasks[id].timeout_seconds # NoTime
                        /\ now - tasks[id].last_activity > tasks[id].timeout_seconds)
             /\ (\/ id \notin DOMAIN tasks
                 \/ tasks[id].assigned_to = None
                 \/ /\ tasks[id].status = IN_PROGRESS
                    /\ tasks[id].timeout_seconds # NoTime
                    /\ now - tasks[id].last_activity > tasks[id].timeout_seconds) =>
                   /\ lastOp'.ok = FALSE
                   /\ lastOp'.err \notin {None, EmptyStr}
                   /\ invoked' = invoked
                   /\ tasks' = tasks
                   /\ task_queue' = task_queue]_vars

\* execute_task has just refused a task that is IN_PROGRESS past its timeout
C12_Witness ==
    /\ lastOp.op = "execute_task"
    /\ ~lastOp.ok
    /\ lastOp.err = ErrTimedOut
    /\ lastOp.arg \in DOMAIN tasks
    /\ tasks[lastOp.arg].status = IN_PROGRESS
    /\ tasks[lastOp.arg].assigned_to # None
    /\ now - tasks[lastOp.arg].last_activity > tasks[lastOp.arg].timeout_seconds

\* C13 as stated: when the worker raises an exception with message e,
\* execute_task returns success = false with error e, and the task is back
\* to PENDING with one more retry counted if it had retries left, and is
\* FAILED with error e otherwise.
C13_ExceptionMessageKept ==
    [][\A id \in DOMAIN tasks :
          \A timeout \in {NoTime, ExecTimeout}, e \in {"e1", EmptyStr} :
              (invoked'[id] # invoked[id] /\ ExecuteTask(id, timeout, WorkerRaise(e))) =>
                 /\ lastOp'.ok = FALSE
                 /\ lastOp'.err = e
                 /\ IF tasks[id].retry_count < tasks[id].max_retries
                    THEN /\ tasks'[id].status = PENDING
                         /\ tasks'[id].retry_count = tasks[id].retry_count + 1
                         /\ id \in task_queue_set'
                    ELSE /\ tasks'[id].status = FAILED
                         /\ tasks'[id].retry_count = tasks[id].retry_count
                         /\ tasks'[id].error = e]_vars

\* C13 amended: as above, with the error of the FAILED task being e when e
\* is not empty and the text "未知错误" when e is empty.
C13_ExceptionCaught ==
    [][\A id \in DOMAIN tasks :
          \A timeout \in {NoTime, ExecTimeout}, e \in {"e1", EmptyStr} :
              (invoked'[id] # invoked[id] /\ ExecuteTask(id, timeout, WorkerRaise(e))) =>
                 /\ lastOp'.ok = FALSE
                 /\ lastOp'.err = e
                 /\ IF tasks[id].retry_count < tasks[id].max_retries
                    THEN /\ tasks'[id].status = PENDING
                         /\ tasks'[id].retry_count = tasks[id].retry_count + 1
                         /\ id \in task_queue_set'
                    ELSE /\ tasks'[id].status = FAILED
                         /\ tasks'[id].retry_count = tasks[id].retry_count
                         /\ tasks'[id].error = IF e = EmptyStr THEN UnknownError ELSE e]_vars

\* the worker raised an exception without message on the last attempt
C13_Witness ==
    /\ lastOp.op = "execute_task"
    /\ ~lastOp.ok
    /\ lastOp.err = EmptyStr
    /\ lastOp.arg \in DOMAIN tasks
    /\ tasks[lastOp.arg].status = FAILED
    /\ tasks[lastOp.arg].retry_count = tasks[lastOp.arg].max_retries
    /\ tasks[lastOp.arg].error = UnknownError
    /\ invoked[lastOp.arg] = DefaultMaxRetries + 1

\* C14: assign_task returns false and changes no task and no queue entry
\* when the id has no task or some dependency is missing or not COMPLETED;
\* otherwise it returns true, the task is ASSIGNED to the role with
\* assigned_at set, every other task is as before, and the id is in neither
\* the heap nor the queue set.
C14_AssignTask ==
    [][\A id \in 1..AssignTasks, role_name \in {PM, ARCHITECT} :
          AssignTask(id, role_name) =>
             IF \/ id \notin DOMAIN tasks
                \/ \E d \in tasks[id].dependencies :
                      d \notin DOMAIN tasks \/ tasks[d].status # COMPLETED
             THEN /\ lastOp'.ok = FALSE
                  /\ tasks' = tasks
                  /\ task_queue' = task_queue
                  /\ task_queue_set' = task_queue_set
             ELSE /\ lastOp'.ok = TRUE
                  /\ tasks'[id].status = ASSIGNED
                  /\ tasks'[id].assigned_to = role_name
                  /\ tasks'[id].assigned_at = now
                  /\ \A o \in DOMAIN tasks \ {id} : tasks'[o] = tasks[o]
                  /\ id \notin QueueIds(task_queue')
                  /\ id \notin task_queue_set'
                  /\ QueueIds(task_queue') = QueueIds(task_queue) \ {id}]_vars

\* assign_task has just taken a task out of a queue that holds another one
C14_Witness ==
    /\ lastOp.op = "assign_task"
    /\ lastOp.ok
    /\ tasks[lastOp.arg].status = ASSIGNED
    /\ tasks[lastOp.arg].assigned_at > tasks[lastOp.arg].created_at
    /\ lastOp.arg \notin QueueIds(task_queue)
    /\ task_queue # <<>>

\* C15: pause_workflow returns false and changes neither the workflows nor the
\* pause records when the workflow is unknown or not RUNNING; on a RUNNING
\* workflow it returns true, changes only the status, to PAUSED, and records
\* the reason, the time and the ids of the steps that are IN_PROGRESS.
C15_PauseWorkflow ==
    [][\A wid \in WfIds :
          PauseWorkflow(wid, "reason") =>
             IF wid \notin DOMAIN workflows \/ workflows[wid].status # RUNNING
             THEN /\ lastOp'.ok = FALSE
                  /\ workflows' = workflows
                  /\ paused_workflows' = paused_workflows
             ELSE /\ lastOp'.ok = TRUE
                  /\ workflows'[wid].status = PAUSED
                  /\ workflows'[wid].steps = workflows[wid].steps
                  /\ workflows'[wid].context = workflows[wid].context
                  /\ wid \in DOMAIN paused_workflows'
                  /\ paused_workflows'[wid].reason = "reason"
                  /\ paused_workflows'[wid].paused_at = now
                  /\ paused_workflows'[wid].running_steps =
                        {workflows[wid].steps[i].step_id :
                            i \in {j \in 1..Len(workflows[wid].steps) :
                                     workflows[wid].steps[j].status = IN_PROGRESS}}]_vars

\* a pause has just recorded a step that is IN_PROGRESS
C15_Witness ==
    /\ lastOp.op = "pause_workflow"
    /\ lastOp.ok
    /\ 1 \in DOMAIN workflows
    /\ workflows[1].status = PAUSED
    /\ 1 \in DOMAIN paused_workflows
    /\ paused_workflows[1].running_steps # {}
    /\ \E i \in 1..Len(workflows[1].steps) : workflows[1].steps[i].status # IN_PROGRESS

\* C16: resume_workflow returns false and changes nothing when the workflow
\* is unknown or not PAUSED; on a PAUSED workflow it returns true, drops the
\* pause record, leaves the workflow RUNNING (or COMPLETED, when the update it
\* performs finds every step completed), and every step without a task whose
\* dependencies' tasks are all COMPLETED has a new task when it returns.
C16_ResumeWorkflow ==
    [][\A wid \in WfIds :
          ResumeWorkflow(wid) =>
             IF wid \notin DOMAIN workflows \/ workflows[wid].status # PAUSED
             THEN /\ lastOp'.ok = FALSE
                  /\ workflows' = workflows
                  /\ paused_workflows' = paused_workflows
                  /\ tasks' = tasks
                  /\ task_queue' = task_queue
             ELSE /\ lastOp'.ok = TRUE
                  /\ wid \notin DOMAIN paused_workflows'
                  /\ workflows'[wid].status \in {RUNNING, COMPLETED}
                  /\ workflows'[wid].status = COMPLETED =>
                        \A i \in 1..Len(workflows[wid].steps) :
                            StepTaskCompleted(workflows[wid], tasks, i)
                  /\ \A i \in 1..Len(workflows[wid].steps) :
                        (/\ workflows[wid].steps[i].task_id = NoId
                         /\ i \in DOMAIN workflows[wid].dependencies =>
                               \A d \in workflows[wid].dependencies[i] :
                                   StepTaskCompleted(workflows[wid], tasks, d)) =>
                           /\ workflows'[wid].steps[i].task_id \in DOMAIN tasks' \ DOMAIN tasks
                           /\ tasks'[workflows'[wid].steps[i].task_id].status = ASSIGNED
                           /\ tasks'[workflows'[wid].steps[i].task_id].step = i]_vars

\* a resume has just given a task to the second step, whose dependency
\* completed while the workflow was paused
C16_Witness ==
    /\ lastOp.op = "resume_workflow"
    /\ lastOp.ok
    /\ 1 \in DOMAIN workflows
    /\ workflows[1].status = RUNNING
    /\ 1 \notin DOMAIN paused_workflows
    /\ Len(workflows[1].steps) = 2
    /\ 2 \in DOMAIN workflows[1].dependencies
    /\ workflows[1].steps[1].status = COMPLETED
    /\ workflows[1].steps[2].task_id # NoId
    /\ tasks[workflows[1].steps[2].task_id].status = ASSIGNED
    /\ Cardinality(DOMAIN tasks) = 2

\* C17: pause_workflow changes no task and no queue entry, and a task of a
\* PAUSED workflow that is ASSIGNED or IN_PROGRESS is taken to COMPLETED by an
\* execute_task whose worker succeeds.
C17_PauseLeavesTasks ==
    /\ [][\A wid \in WfIds :
             PauseWorkflow(wid, "reason") =>
                /\ tasks' = tasks
                /\ task_queue' = task_queue
                /\ task_queue_set' = task_queue_set]_vars
    /\ [][\A id \in DOMAIN tasks :
             (/\ tasks[id].wf \in DOMAIN workflows
              /\ workflows[tasks[id].wf].status = PAUSED
              /\ tasks[id].status \in {ASSIGNED, IN_PROGRESS}
              /\ ExecuteTask(id, NoTime, WorkerSuccess(WorkerResult(id)))) =>
                /\ lastOp'.ok = TRUE
                /\ tasks'[id].status = COMPLETED
                /\ tasks'[id].result = WorkerResult(id)
                /\ workflows' = workflows]_vars

\* a task that was IN_PROGRESS when its workflow was paused has been executed
\* to COMPLETED and the workflow is still PAUSED
C17_Witness ==
    /\ lastOp.op = "execute_task"
    /\ lastOp.ok
    /\ tasks[lastOp.arg].status = COMPLETED
    /\ tasks[lastOp.arg].wf = 1
    /\ 1 \in DOMAIN workflows
    /\ workflows[1].status = PAUSED
    /\ 1 \in DOMAIN paused_workflows
    /\ tasks[lastOp.arg].step \in paused_workflows[1].running_steps

\* C18: update_workflow on a RUNNING workflow one of whose steps has a task
\* that is FAILED with its retries used up leaves the workflow FAILED.
C18_WorkflowFails ==
    [][\A wid \in WfIds :
          (/\ UpdateWorkflow(wid)
           /\ wid \in DOMAIN workflows
           /\ workflows[wid].status = RUNNING
           /\ \E i \in 1..Len(workflows[wid].steps) :
                 /\ workflows[wid].steps[i].task_id \in DOMAIN tasks
                 /\ Terminal(tasks[workflows[wid].steps[i].task_id])
                 /\ tasks[workflows[wid].steps[i].task_id].status = FAILED) =>
             workflows'[wid].status = FAILED]_vars

\* the dependency edges of the step at position i of w: the positions of the
\* steps of w its dependency list names
DepPositions(w, i) ==
    IF w.steps[i].step_id \in DOMAIN w.dependencies
    THEN {j \in 1..Len(w.steps) :
             w.steps[j].step_id \in w.dependencies[w.steps[i].step_id]}
    ELSE {}

\* C19: create_from_template(name) on a registered template returns a workflow
\* the engine files under an id that is new and is not the template's, with
\* status CREATED, an empty context, as many steps as the template in the same
\* order with the same step_type and role_name, the same dependency edges
\* between corresponding steps, and every step PENDING without a task_id
\* whatever the runtime state of the template; on a name that is not
\* registered it returns None and adds no workflow
C19_CreateFromTemplate ==
    [][\A template_name \in TemplateNames, wid \in 1..(MaxWorkflows + 1) :
          CreateFromTemplate(template_name, wid) =>
             IF template_name \notin DOMAIN workflow_templates
             THEN /\ lastOp'.val = NoId
                  /\ workflows' = workflows
             ELSE LET t == workflows[workflow_templates[template_name]]
                      c == workflows'[wid]
                  IN  /\ lastOp'.val = wid
                      /\ wid # workflow_templates[template_name]
                      /\ wid \notin DOMAIN workflows
                      /\ DOMAIN workflows' = DOMAIN workflows \cup {wid}
                      /\ c.status = CREATED
                      /\ c.context = <<>>
                      /\ Len(c.steps) = Len(t.steps)
                      /\ \A i \in 1..Len(t.steps) :
                            /\ c.steps[i].step_type = t.steps[i].step_type
                            /\ c.steps[i].role_name = t.steps[i].role_name
                            /\ c.steps[i].status = PENDING
                            /\ c.steps[i].task_id = NoId
                            /\ DepPositions(c, i) = DepPositions(t, i)]_vars

\* C20: a template registered through register_all_templates is never mutated:
\* no create_from_template, start_workflow, update_workflow, pause_workflow or
\* resume_workflow on a workflow id the engine knows changes the status of the
\* template, the status or the task_id of its steps, or its context
C20_TemplateNeverMutated ==
    [][\A template_name \in {ProjectDevelopment, BugFix} :
          template_name \in DOMAIN workflow_templates =>
             LET tid == workflow_templates[template_name]
                 t == workflows[tid]
                 u == workflows'[tid]
             IN  /\ u.status = t.status
                 /\ u.context = t.context
                 /\ Len(u.steps) = Len(t.steps)
                 /\ \A i \in 1..Len(t.steps) :
                       /\ u.steps[i].status = t.steps[i].status
                       /\ u.steps[i].task_id = t.steps[i].task_id]_vars

\* C21: get_ready_steps returns, in step order, exactly the steps whose status
\* is neither COMPLETED nor IN_PROGRESS, whose every declared dependency names
\* a step of the workflow that is COMPLETED, and whose condition, when there is
\* one, is true of the context; it changes no workflow, step or task
C21_GetReadySteps ==
    [][\A wid \in WfIds :
          CallGetReadySteps(wid) =>
             LET w == workflows[wid]
                 declared(i) == IF w.steps[i].step_id \in DOMAIN w.dependencies
                                THEN w.dependencies[w.steps[i].step_id]
                                ELSE {}
                 holds(c) == c = "step_1_done" /\ 1 \in DOMAIN w.context
                 ready == {i \in 1..Len(w.steps) :
                             /\ w.steps[i].status # COMPLETED
                             /\ w.steps[i].status # IN_PROGRESS
                             /\ \A d \in declared(i) :
                                   \E j \in 1..Len(w.steps) :
                                       /\ w.steps[j].step_id = d
                                       /\ w.steps[j].status = COMPLETED
                             /\ w.steps[i].condition # None =>
                                   holds(w.steps[i].condition)}
             IN  /\ \E seq \in [1..Cardinality(ready) -> ready] :
                       /\ \A a, b \in 1..Cardinality(ready) : a < b => seq[a] < seq[b]
                       /\ lastOp'.val = ListCode(seq)
                 /\ UNCHANGED <<tasks, task_queue, task_queue_set, workflows,
                                paused_workflows, workflow_templates,
                                threads>>]_vars

\* get_ready_steps has just returned step 2 alone, whose condition holds and
\* whose dependency, step 1, is COMPLETED
C21_Witness ==
    /\ lastOp.op = "get_ready_steps"
    /\ lastOp.val = 2
    /\ workflows[1].steps[2].condition = "step_1_done"
    /\ 2 \in DOMAIN workflows[1].dependencies
    /\ 1 \in workflows[1].dependencies[2]
    /\ workflows[1].steps[1].status = COMPLETED

\* C22: auto_assign_pending_tasks assigns every PENDING task whose dependencies
\* are all COMPLETED and whose task_type is in role_mapping to the mapped role,
\* returns the number of tasks it moved to ASSIGNED, and leaves unchanged every
\* task with an unmapped type, an unmet or missing dependency, or a status
\* other than PENDING
C22_AutoAssign ==
    [][AutoAssignPendingTasks =>
          LET eligible == {i \in DOMAIN tasks :
                              /\ tasks[i].status = PENDING
                              /\ role_mapping(tasks[i].task_type) # None
                              /\ \A d \in tasks[i].dependencies :
                                    d \in DOMAIN tasks /\ tasks[d].status = COMPLETED}
          IN  /\ DOMAIN tasks' = DOMAIN tasks
              /\ \A i \in eligible :
                    /\ tasks'[i].status = ASSIGNED
                    /\ tasks'[i].assigned_to = role_mapping(tasks[i].task_type)
              /\ \A i \in DOMAIN tasks \ eligible : tasks'[i] = tasks[i]
              /\ lastOp'.val = Cardinality(eligible)]_vars

\* auto_assign_pending_tasks has just assigned one task and passed over a
\* PENDING task of an unmapped type and a PENDING task with an unmet dependency
C22_Witness ==
    /\ lastOp.op = "auto_assign_pending_tasks"
    /\ lastOp.val = 1
    /\ \E i, j \in DOMAIN tasks :
          /\ tasks[i].status = ASSIGNED
          /\ tasks[i].assigned_to = BACKEND
          /\ tasks[j].status = PENDING
          /\ \/ role_mapping(tasks[j].task_type) = None
             \/ UnmetDeps(j) # {}
             \/ MissingId \in tasks[j].dependencies

\* C23: a knowledge base that raises during execute_task does not affect the
\* execution: the status, result, error and retry_count of the task and the
\* dict execute_task returns are those of the same execution with a knowledge
\* base that succeeds, and no exception leaves execute_task
C23_SinkFailureHarmless ==
    [][\A id \in 1..SinkTasks, timeout \in {NoTime} :
          \A outcome \in SchedOutcomes(id) :
             (/\ ~ExecuteRefused(tasks, id)
              /\ ExecuteTask(id, timeout, [outcome EXCEPT !.sink = "raise"])) =>
                LET good == ExecuteState(tasks, task_queue, task_queue_set,
                                         id, timeout, outcome)
                IN  /\ tasks'[id].status = good.tasks[id].status
                    /\ tasks'[id].result = good.tasks[id].result
                    /\ tasks'[id].error = good.tasks[id].error
                    /\ tasks'[id].retry_count = good.tasks[id].retry_count
                    /\ lastOp'.op = "execute_task"
                    /\ lastOp'.ok = good.ok
                    /\ lastOp'.err = good.err]_vars

\* an execution has just completed a task although the knowledge base raised
\* when the result was written to it
C23_Witness ==
    /\ lastOp.op = "execute_task"
    /\ lastOp.sink = "add_task_result"
    /\ lastOp.sink_raised
    /\ lastOp.ok
    /\ tasks[lastOp.arg].status = COMPLETED

\* C24: every failed execution attempt emits a failure experience to the
\* knowledge base: execute_task calls _save_failure_experience when the worker
\* returns success=false and when the worker raises an exception
C24_FailureExperienceEmitted ==
    [][\A id \in 1..SinkTasks, timeout \in {NoTime} :
          \A outcome \in SchedOutcomes(id) :
             (/\ ~ExecuteRefused(tasks, id)
              /\ outcome.kind \in {"failure", "raise"}
              /\ ExecuteTask(id, timeout, outcome)) =>
                lastOp'.sink = "add_experience"]_vars

\* C25: a Task saved with Database.save_task and reloaded with load_tasks is
\* the dict of the task, value for value (status, priority, dependencies,
\* result including the empty dict, error, retry counters, timeout, every
\* unset timestamp None), and a Workflow saved with save_workflow is saved
\* and reloaded with its steps
C25_RoundTrip ==
    /\ lastOp.op = "load_tasks" =>
          lastOp.ok /\ lastOp.loaded = TaskToDict(tasks[lastOp.arg])
    /\ lastOp.op = "load_workflows" =>
          /\ lastOp.ok
          /\ Len(lastOp.loaded) = Len(workflows[lastOp.arg].steps)

\* C26: when two threads run create_task and assign_task concurrently, a
\* statement at a time, then once both calls have returned no enqueued task
\* is lost: task_queue and _task_queue_set hold the same ids
C26_NoTaskLost ==
    (\A th \in 1..MaxThreads : threads[th].pc = "idle") =>
        QueueIds(task_queue) = task_queue_set

\* C27: TaskManager.assign_task returns true and sets ASSIGNED only when the
\* task is PENDING with all dependencies COMPLETED; on a task of any other
\* status it changes neither the status nor the assigned role
C27_AssignOnlyFromPending ==
    [][\A id \in 1..AssignTasks, role_name \in {PM, ARCHITECT} :
          AssignTask(id, role_name) /\ id \in DOMAIN tasks =>
              IF tasks[id].status = PENDING
              THEN lastOp'.ok => AllDepsCompleted(tasks, tasks[id].dependencies)
              ELSE /\ tasks'[id].status = tasks[id].status
                   /\ tasks'[id].assigned_to = tasks[id].assigned_to]_vars

\* C28: in every sequence of create_task, assign_task and execute_task the
\* status just before a transition to IN_PROGRESS (the worker is invoked) is
\* ASSIGNED, also for an execution that follows a failed attempt re-queued as
\* PENDING
C28_InProgressOnlyFromAssigned ==
    [][\A id \in 1..ExecTasks :
          id \in DOMAIN tasks /\ invoked'[id] > invoked[id] =>
              tasks[id].status = ASSIGNED]_vars

\* C29: a task re-enqueued after a failed attempt keeps its place: of the
\* queued PENDING tasks get_next_task returns neither a task of the same
\* priority created after the retried task nor the retried task while a
\* task of higher priority is queued
C29_RetryKeepsSeniority ==
    [][GetNextTask(None) =>
          \A r \in task_queue_set, other \in task_queue_set :
              /\ tasks[r].status = PENDING /\ tasks[r].retry_count > 0
              /\ tasks[other].status = PENDING /\ other # r
              => /\ (/\ tasks[other].priority = tasks[r].priority
                     /\ CreatedPos(other) > CreatedPos(r))
                    => lastOp'.val # other
                 /\ tasks[other].priority > tasks[r].priority
                    => lastOp'.val # r]_vars

\* C30: a workflow with zero steps is completed: start_workflow on it returns
\* true, creates no task and leaves it RUNNING with no completed_at, and
\* update_workflow on the RUNNING zero-step workflow sets COMPLETED and
\* completed_at
C30_EmptyWorkflowCompletes ==
    [][\A wid \in WfIds :
          wid \in DOMAIN workflows /\ workflows[wid].steps = <<>> =>
              /\ IsCompleted(workflows[wid])
              /\ StartWorkflow(wid) =>
                    /\ lastOp'.ok
                    /\ tasks' = tasks /\ created_order' = created_order
                    /\ workflows'[wid].status = RUNNING
                    /\ workflows'[wid].started_at = now
                    /\ workflows'[wid].completed_at = workflows[wid].completed_at
              /\ UpdateWorkflow(wid) /\ workflows[wid].status = RUNNING =>
                    /\ tasks' = tasks /\ created_order' = created_order
                    /\ workflows'[wid].status = COMPLETED
                    /\ workflows'[wid].completed_at = now]_vars

\* a zero-step workflow was started and the update that followed completed it
C30_Witness ==
    /\ lastOp.op = "update_workflow"
    /\ lastOp.arg \in DOMAIN workflows
    /\ workflows[lastOp.arg].steps = <<>>
    /\ workflows[lastOp.arg].status = COMPLETED
    /\ workflows[lastOp.arg].started_at # NoTime
    /\ workflows[lastOp.arg].completed_at # NoTime

\* C31: get_next_task(role_name) with a role returns only a task whose
\* task_type maps to that role in role_mapping, never a task of another role
C31_NextTaskOfRole ==
    [][\A role_name \in {PM, ARCHITECT} :
          GetNextTask(role_name) /\ lastOp'.val # NoId =>
              role_mapping(tasks[lastOp'.val].task_type) = role_name]_vars

\* C32: for every task 0 <= retry_count <= max_retries, retry_count never
\* decreases, and a task left FAILED when an operation of the TaskManager
\* or of the EnhancedTaskManager returns has retry_count = max_retries
C32_RetryCounter ==
    [][\A id \in DOMAIN tasks' :
          /\ 0 <= tasks'[id].retry_count
          /\ tasks'[id].retry_count <= tasks'[id].max_retries
          /\ id \in DOMAIN tasks =>
                tasks'[id].retry_count >= tasks[id].retry_count
          /\ tasks'[id].status = FAILED =>
                tasks'[id].retry_count = tasks'[id].max_retries]_vars

\* C33: after any sequence of create_task, assign_task, get_next_task and
\* update_task_status every task that is PENDING with all dependencies
\* COMPLETED is in the priority queue, also a task get_next_task returned
\* and the caller did not assign
C33_NoSchedulableTaskLost ==
    \A id \in DOMAIN tasks :
        tasks[id].status = PENDING
        /\ AllDepsCompleted(tasks, tasks[id].dependencies)
        => id \in QueueIds(task_queue)

C35_PauseRecordIffPaused ==
    \A wid \in DOMAIN workflows :
        wid \in DOMAIN paused_workflows <=> workflows[wid].status = PAUSED

\* C36: start_workflow sets RUNNING only a workflow that is CREATED, it does
\* not set a PAUSED workflow RUNNING, and a COMPLETED workflow keeps its
\* status and gets no further task
C36_StartOnlyFromCreated ==
    [][\A wid \in DOMAIN workflows :
          /\ lastOp'.op = "start_workflow" /\ lastOp'.arg = wid
             /\ workflows'[wid].status = RUNNING
             => workflows[wid].status = CREATED
          /\ workflows[wid].status = COMPLETED
             => /\ workflows'[wid].status = COMPLETED
                /\ \A id \in DOMAIN tasks' \ DOMAIN tasks : tasks'[id].wf # wid]_vars

\* C37: a started workflow whose steps depend only on earlier steps and have
\* no conditions, whose referenced tasks are executed by a worker that
\* succeeds and whose update_workflow keeps being called, is eventually
\* COMPLETED
C37_WorkflowProgress ==
    \A wid \in WfIds :
        (wid \in DOMAIN workflows /\ workflows[wid].status = RUNNING)
        ~> (wid \in DOMAIN workflows /\ workflows[wid].status = COMPLETED)

\* a workflow of two steps, the second depending on the first, is COMPLETED
\* after a step was materialized twice
C37_Witness ==
    \E wid \in DOMAIN workflows :
        /\ workflows[wid].status = COMPLETED
        /\ Len(workflows[wid].steps) = MaxSteps
        /\ workflows[wid].dependencies # <<>>
        /\ Len(created_order) > MaxSteps

\* C38: when two threads call execute_task for the same ASSIGNED task, at
\* most one of them invokes the worker for it: the other one finds the task
\* IN_PROGRESS and returns, so no two threads are at the same time past the
\* call of the worker for one task
C38_OneInvocationPerAttempt ==
    \A th1, th2 \in 1..MaxThreads :
        /\ th1 # th2
        /\ threads[th1].pc = "exec_result"
        /\ threads[th2].pc = "exec_result"
        => threads[th1].task_id # threads[th2].task_id

====
